---- MODULE Spec2Model ----
(***************************************************************************)
(* Sleep-stage classification scripts of dream-stream (scripts/*.py).      *)
(*                                                                         *)
(* Two specifications share this module:                                   *)
(*   SpecSeg  - identify_sessions applied to the stage list load_data      *)
(*              returns (sorted by start time);                            *)
(*   Spec     - the per-sample classification loops (run_adaptive_         *)
(*              classifier and the variant loops) over one list of         *)
(*              sessions and one list of heart-rate samples.               *)
(*                                                                         *)
(* Times are whole minutes since an arbitrary epoch.  Real-valued          *)
(* quantities are held in fixed point: RMSSD in hundredths, CV and         *)
(* probabilities/thresholds in thousandths, REM scores in                  *)
(* ten-thousandths.                                                        *)
(***************************************************************************)
EXTENDS Integers, Sequences, FiniteSets, TLC

VARIABLES
    \* ---- segmenter (SpecSeg) ----
    sleep_stages,      \* the argument of identify_sessions
    gap_hours,         \* the gap_hours argument
    seg_pc,            \* "call" before the call, "done" after it returned
    seg_result,        \* what the call produced: [raised, sessions]
    \* ---- classification run (Spec) ----
    cfg,               \* which loop runs and the arguments it was called with
    hr_samples,        \* the heart-rate samples, sorted by time
    sessions,          \* the sessions argument
    run_pc,            \* "session" (top of the session loop), "sample", "done"
    si,                \* index of the session the loop is at
    stream,            \* the samples the record/sample loops visit, in order
    k,                 \* index in stream of the next sample
    recent_hrs,
    rmssd_history,
    consecutive_rem_signals,
    consecutive_awake_signals,
    prev_predicted,
    confusion,
    log,               \* per-sample diagnostics, in emission order
    \* ---- sessions classified side by side (SpecPar) ----
    workers,           \* per session: [st, k, labels, confusion]
    \* ---- one call of a pure function (SpecFn) ----
    fn_call,           \* the function called and its arguments
    fn_ret             \* [done |-> FALSE] or [done |-> TRUE, value |-> ...]

segVars == <<sleep_stages, gap_hours, seg_pc, seg_result>>
inputVars == <<cfg, hr_samples, sessions>>
stateVars == <<recent_hrs, rmssd_history, consecutive_rem_signals,
               consecutive_awake_signals, prev_predicted>>
runVars == <<cfg, hr_samples, sessions, run_pc, si, stream, k, recent_hrs,
             rmssd_history, consecutive_rem_signals, consecutive_awake_signals,
             prev_predicted, confusion, log>>
auxVars == <<workers, fn_call, fn_ret>>
vars == <<sleep_stages, gap_hours, seg_pc, seg_result, cfg, hr_samples,
          sessions, run_pc, si, stream, k, recent_hrs, rmssd_history,
          consecutive_rem_signals, consecutive_awake_signals, prev_predicted,
          confusion, log, workers, fn_call, fn_ret>>

\* the values of workers, fn_call and fn_ret outside their specifications
AuxIdle ==
    /\ workers = <<>>
    /\ fn_call = [fn |-> "none"]
    /\ fn_ret = [done |-> FALSE]

(***************************************************************************)
(* Generic helpers                                                         *)
(***************************************************************************)
Range(s) == {s[i] : i \in 1..Len(s)}

RECURSIVE Flatten(_)
Flatten(ss) == IF ss = <<>> THEN <<>> ELSE Head(ss) \o Flatten(Tail(ss))

RECURSIVE SeqSum(_)
SeqSum(s) == IF s = <<>> THEN 0 ELSE Head(s) + SeqSum(Tail(s))

(***************************************************************************)
(* Session Segmenter: identify_sessions                                    *)
(***************************************************************************)
\* bounds of the segmenter inputs
MaxStages == 3
SegTimes == {0, 60, 300, 301}
SegStageLabels == {"light", "rem"}

StageRecords(times, labels) ==
    [stage : labels, start : times, end : times]

\* load_data sorts the stage list by start time and checks nothing else
SortedByStart(s) == \A i \in 1..(Len(s) - 1) : s[i].start <= s[i + 1].start

\* variant: a gap equal to the threshold already splits
GapExceeds_AtLeast(a, b, gh) == (b.start - a.end) >= gh * 60

\* (b.start - a.end).total_seconds() / 3600 > gap_hours, with times in minutes
GapExceeds(a, b, gh) == (b.start - a.end) > gh * 60

\* the for loop of identify_sessions from index i on; acc = <<sessions, current>>
RECURSIVE SegLoop(_, _, _, _, _)
SegLoop(stages, gh, i, done, current) ==
    IF i > Len(stages)
    THEN IF current # <<>> THEN Append(done, current) ELSE done
    ELSE IF GapExceeds(stages[i - 1], stages[i], gh)
         THEN SegLoop(stages, gh, i + 1, Append(done, current), <<stages[i]>>)
         ELSE SegLoop(stages, gh, i + 1, done, Append(current, stages[i]))

\* variant: the first record is not seeded into the current session
identify_sessions_DropFirst(stages, gh) ==
    IF stages = <<>>
    THEN <<>>
    ELSE SegLoop(stages, gh, 2, <<>>, <<>>)

\* variant: no early return, the empty current session is appended
identify_sessions_NoEarlyReturn(stages, gh) ==
    IF stages = <<>>
    THEN << <<>> >>
    ELSE SegLoop(stages, gh, 2, <<>>, <<stages[1]>>)

identify_sessions(stages, gh) ==
    IF stages = <<>>
    THEN <<>>
    ELSE SegLoop(stages, gh, 2, <<>>, <<stages[1]>>)

\* variant: structural violations are rejected
identify_sessions_call_Validating(stages, gh) ==
    IF stages = <<>> \/ \E i \in 1..Len(stages) : stages[i].end < stages[i].start
    THEN [raised |-> "ValidationError", sessions |-> <<>>]
    ELSE [raised |-> "none", sessions |-> identify_sessions(stages, gh)]

\* the outcome of a call: the function has no raise statement and validates
\* nothing, so it always returns normally
identify_sessions_call(stages, gh) ==
    [raised |-> "none", sessions |-> identify_sessions(stages, gh)]

SegInputs ==
    UNION {{s \in [1..n -> StageRecords(SegTimes, SegStageLabels)] : SortedByStart(s)}
           : n \in 0..MaxStages}

InitSeg ==
    /\ sleep_stages \in SegInputs
    /\ gap_hours = 4
    /\ seg_pc = "call"
    /\ seg_result = [raised |-> "none", sessions |-> <<>>]
    /\ cfg = [variant |-> "none"]
    /\ hr_samples = <<>>
    /\ sessions = <<>>
    /\ run_pc = "off"
    /\ si = 0
    /\ stream = <<>>
    /\ k = 0
    /\ recent_hrs = <<>>
    /\ rmssd_history = <<>>
    /\ consecutive_rem_signals = 0
    /\ consecutive_awake_signals = 0
    /\ prev_predicted = "nrem"
    /\ confusion = <<>>
    /\ log = <<>>
    /\ AuxIdle

SegCall ==
    /\ seg_pc = "call"
    /\ seg_result' = identify_sessions_call(sleep_stages, gap_hours)
    /\ seg_pc' = "done"
    /\ UNCHANGED <<sleep_stages, gap_hours>>
    /\ UNCHANGED runVars
    /\ UNCHANGED auxVars

NextSeg == SegCall

SpecSeg == InitSeg /\ [][NextSeg]_vars

(***************************************************************************)
(* Fixed-point arithmetic                                                  *)
(***************************************************************************)
Abs(x) == IF x < 0 THEN -x ELSE x
Min2(a, b) == IF a <= b THEN a ELSE b
Max2(a, b) == IF a >= b THEN a ELSE b

\* floor of the square root (math.sqrt, truncated to the fixed-point grid)
RECURSIVE ISqrtSearch(_, _, _)
ISqrtSearch(x, lo, hi) ==
    IF lo >= hi THEN lo
    ELSE LET mid == (lo + hi + 1) \div 2
         IN  IF mid * mid <= x THEN ISqrtSearch(x, mid, hi)
                               ELSE ISqrtSearch(x, lo, mid - 1)

ISqrt(x) == ISqrtSearch(x, 0, 46340)

RECURSIVE SumSq(_)
SumSq(s) == IF s = <<>> THEN 0 ELSE Head(s) * Head(s) + SumSq(Tail(s))

\* s[-n:]
LastN(s, n) == IF Len(s) <= n THEN s ELSE SubSeq(s, Len(s) - n + 1, Len(s))

(***************************************************************************)
(* Streaming feature extraction (shared by run_adaptive_classifier,        *)
(* run_baseline, run_option_b, two_stage_v2.run_classifier and             *)
(* run_debug_on_first_session)                                             *)
(***************************************************************************)
MAX_RECENT_HR == 20
MAX_RMSSD_HISTORY == 10
CYCLE_LENGTH == 90
REM_CONSECUTIVE_REQUIRED == 2
AWAKE_CONSECUTIVE_REQUIRED == 1
\* CV_THRESHOLD = 0.20, in thousandths
CV_THRESHOLD == 200
\* sleep latency: the literal 70 of "if minutes < 70"
SLEEP_LATENCY == 70
\* len(session) < 5
MIN_SESSION_RECORDS == 5

StageOrder == <<"awake", "nrem", "rem">>
Stages3 == {"awake", "nrem", "rem"}

normalize_stage(stage) == IF stage \in {"light", "deep"} THEN "nrem" ELSE stage

\* variant: a full buffer gives up its newest entry instead of its oldest
PushBounded_EvictNewest(buf, x, cap) ==
    IF Len(buf) >= cap THEN Append(SubSeq(buf, 1, cap - 1), x) ELSE Append(buf, x)

\* append + pop(0) when the capacity is exceeded
PushBounded(buf, x, cap) ==
    LET a == Append(buf, x) IN IF Len(a) > cap THEN Tail(a) ELSE a

\* [abs(recent_hrs[i] - recent_hrs[i-1]) for i in range(1, len(recent_hrs))]
Diffs(hrs) == [i \in 1..(Len(hrs) - 1) |-> Abs(hrs[i + 1] - hrs[i])]

\* variant: the squares are averaged over the buffer length
rmssd_of_DivideByLen(hrs) ==
    IF Len(hrs) >= 2
    THEN ISqrt((10000 * SumSq(Diffs(hrs))) \div Len(hrs))
    ELSE 1000

\* rmssd in hundredths: sqrt(sum(diffs_sq) / len(diffs_sq)), sentinel 10
rmssd_of(hrs) ==
    IF Len(hrs) >= 2
    THEN ISqrt((10000 * SumSq(Diffs(hrs))) \div (Len(hrs) - 1))
    ELSE 1000

\* variant: a buffer of one value gets the sentinel of the RMSSD
mean_diff_of_Sentinel(hrs) ==
    IF Len(hrs) >= 2
    THEN LET d == LastN(Diffs(hrs), 10) IN (1000 * SeqSum(d)) \div Len(d)
    ELSE 10000

\* mean_diff in thousandths: statistics.mean(diffs[-10:]), 0 below 2 values
mean_diff_of(hrs) ==
    IF Len(hrs) >= 2
    THEN LET d == LastN(Diffs(hrs), 10) IN (1000 * SeqSum(d)) \div Len(d)
    ELSE 0

\* n * sum(v^2) - (sum v)^2  =  n^2 * population variance
SpreadOf(h) == Len(h) * SumSq(h) - SeqSum(h) * SeqSum(h)

\* population std / mean, in thousandths
PopulationCV(h) == (1000 * ISqrt(SpreadOf(h))) \div SeqSum(h)

\* variant: two entries are enough for the CV to be computed
cv_inline_TwoEntries(h) ==
    IF Len(h) >= 2
    THEN IF SeqSum(h) > 10 * Len(h) THEN PopulationCV(h) ELSE 500
    ELSE 500

\* the inline CV of run_adaptive_classifier, run_baseline and run_option_b:
\* 0.5 below 3 entries, and 0.5 unless mean_rmssd > 0.1
cv_inline(h) ==
    IF Len(h) >= 3
    THEN IF SeqSum(h) > 10 * Len(h) THEN PopulationCV(h) ELSE 500
    ELSE 500

\* compute_cv of debug_python_vs_ts.py and the inline CV of two_stage_v2:
\* 0.5 below 3 entries, and 0.5 when mean < 0.1
compute_cv(h) ==
    IF Len(h) < 3 THEN 500
    ELSE IF SeqSum(h) < 10 * Len(h) THEN 500
         ELSE PopulationCV(h)

(***************************************************************************)
(* Time-based REM propensity and the REM gate                              *)
(***************************************************************************)
\* variant: the propensity follows the cycle from the first minute on
time_rem_prob_of_NoLatency(minutes) ==
    LET cycle == minutes \div CYCLE_LENGTH
        base_prob == Min2(3500, 1000 + cycle * 800)
    IN  IF (minutes % CYCLE_LENGTH) * 100 >= 65 * CYCLE_LENGTH
        THEN base_prob * 2
        ELSE (base_prob * 3) \div 10

\* time_rem_prob in ten-thousandths
time_rem_prob_of(minutes) ==
    IF minutes < SLEEP_LATENCY
    THEN 0
    ELSE LET cycle == minutes \div CYCLE_LENGTH
             base_prob == Min2(3500, 1000 + cycle * 800)
         IN  IF (minutes % CYCLE_LENGTH) * 100 >= 65 * CYCLE_LENGTH
             THEN base_prob * 2
             ELSE (base_prob * 3) \div 10

\* rem_score of the REM gate, in ten-thousandths:
\* 0.5*time_rem_prob + 0.5*cv_rem_signal*0.5 + (0.15 if strong_cv else 0)
rem_score_of(minutes, cv, cvt) ==
    time_rem_prob_of(minutes) \div 2
    + (IF cv < cvt THEN 2500 ELSE 0)
    + (IF cv < (cvt * 7) \div 10 THEN 1500 ELSE 0)

\* rem_score recomputed by the hysteresis block (no strong-CV bonus)
sticky_score_of(minutes, cv, cvt) ==
    time_rem_prob_of(minutes) \div 2 + (IF cv < cvt THEN 2500 ELSE 0)

\* variant: the debounce counter is ignored and one qualifying sample suffices
rem_gate_NoDebounce(minutes, cv, cvt, crs) ==
    IF minutes < SLEEP_LATENCY
    THEN [raw |-> "nrem", crs |-> 0]
    ELSE IF rem_score_of(minutes, cv, cvt) > 2500
         THEN [raw |-> "rem", crs |-> crs + 1]
         ELSE [raw |-> "nrem", crs |-> 0]

\* the REM gate: if minutes < 70 / elif rem_score > 0.25 / else
rem_gate(minutes, cv, cvt, crs) ==
    IF minutes < SLEEP_LATENCY
    THEN [raw |-> "nrem", crs |-> 0]
    ELSE IF rem_score_of(minutes, cv, cvt) > 2500
         THEN [raw |-> IF crs + 1 >= REM_CONSECUTIVE_REQUIRED THEN "rem" ELSE "nrem",
               crs |-> crs + 1]
         ELSE [raw |-> "nrem", crs |-> 0]

(***************************************************************************)
(* Learned parameters, priors and the transition smoother                  *)
(***************************************************************************)
\* int(minutes // 30)
BinOf(minutes) == minutes \div 30

\* variant: of two bins equally near, the later one is taken
ClosestBin_HigherOnTie(priors, b) ==
    CHOOSE x \in DOMAIN priors :
        \A y \in DOMAIN priors :
            \/ Abs(x - b) < Abs(y - b)
            \/ (Abs(x - b) = Abs(y - b) /\ x >= y)

\* min(learned_priors.keys(), key=lambda x: abs(x - bin_idx)): the first key,
\* in ascending insertion order, at minimal distance
ClosestBin(priors, b) ==
    CHOOSE x \in DOMAIN priors :
        \A y \in DOMAIN priors :
            \/ Abs(x - b) < Abs(y - b)
            \/ (Abs(x - b) = Abs(y - b) /\ x <= y)

\* get_learned_awake_prior, in thousandths
get_learned_awake_prior(priors, minutes) ==
    IF BinOf(minutes) \in DOMAIN priors
    THEN priors[BinOf(minutes)]
    ELSE IF DOMAIN priors = {}
         THEN 100
         ELSE priors[ClosestBin(priors, BinOf(minutes))]

\* variant: the cut points themselves are scaled too
get_dynamic_threshold_Inclusive(priors, base_threshold, use_dyn, minutes) ==
    IF ~use_dyn
    THEN base_threshold
    ELSE LET prior == get_learned_awake_prior(priors, minutes)
         IN  IF prior >= 250 THEN (base_threshold * 85) \div 100
             ELSE IF prior <= 50 THEN (base_threshold * 13) \div 10
             ELSE base_threshold

\* get_dynamic_threshold, in thousandths
get_dynamic_threshold(priors, base_threshold, use_dyn, minutes) ==
    IF ~use_dyn
    THEN base_threshold
    ELSE LET prior == get_learned_awake_prior(priors, minutes)
         IN  IF prior > 250 THEN (base_threshold * 85) \div 100
             ELSE IF prior < 50 THEN (base_threshold * 13) \div 10
             ELSE base_threshold

\* variant: the last maximum in dict order
ArgMaxNext_LastBest(row) ==
    LET best == CHOOSE i \in 1..3 :
                    /\ \A j \in 1..3 : row[StageOrder[j]] <= row[StageOrder[i]]
                    /\ \A j \in (i + 1)..3 : row[StageOrder[j]] < row[StageOrder[i]]
    IN  StageOrder[best]

\* max(row.items(), key=lambda x: x[1])[0]: first maximum in dict order
ArgMaxNext(row) ==
    LET best == CHOOSE i \in 1..3 :
                    /\ \A j \in 1..3 : row[StageOrder[j]] <= row[StageOrder[i]]
                    /\ \A j \in 1..(i - 1) : row[StageOrder[j]] < row[StageOrder[i]]
    IN  StageOrder[best]

\* variant: the filter passes the raw label through whatever its probability
TransitionFilter_Off(trans, floor, prev, raw) ==
    [fired |-> FALSE, label |-> raw]

\* variant: only a transition that was never seen is overridden
TransitionFilter_OnlyZero(trans, floor, prev, raw) ==
    IF trans[prev][raw] = 0
    THEN [fired |-> TRUE, label |-> ArgMaxNext(trans[prev])]
    ELSE [fired |-> FALSE, label |-> raw]

\* the transition filter: override when trans[prev][raw] < floor
TransitionFilter(trans, floor, prev, raw) ==
    IF trans[prev][raw] < floor
    THEN [fired |-> TRUE, label |-> ArgMaxNext(trans[prev])]
    ELSE [fired |-> FALSE, label |-> raw]

(***************************************************************************)
(* Per-sample steps of the classification loops.                           *)
(* st  = the per-session mutable state                                     *)
(*       [recent_hrs, rmssd_history, consecutive_rem_signals,              *)
(*        consecutive_awake_signals, prev_predicted]                       *)
(* Each step returns the new state in .st and, in .out, what the step      *)
(* computed for the sample (the source prints or stores these as           *)
(* diagnostics).                                                           *)
(***************************************************************************)
NewState(hrs, hist, crs, cas, pred) ==
    [recent_hrs |-> hrs, rmssd_history |-> hist,
     consecutive_rem_signals |-> crs, consecutive_awake_signals |-> cas,
     prev_predicted |-> pred]

\* variant: a session starts from the state the previous one ended in
FreshState_Carry ==
    NewState(recent_hrs, rmssd_history, consecutive_rem_signals,
             consecutive_awake_signals, prev_predicted)

\* the state a session starts from
FreshState == NewState(<<>>, <<>>, 0, 0, "nrem")

Diag(minutes, cv, raw_awake, score, raw, fired, smoothed, predicted, prev, crs) ==
    [minutes |-> minutes, cv |-> cv, raw_awake |-> raw_awake,
     rem_score |-> score, raw |-> raw, fired |-> fired,
     smoothed |-> smoothed, predicted |-> predicted, prev |-> prev,
     crs |-> crs]

\* REM hysteresis block of run_adaptive_classifier / run_option_b
StickyAfterFilter_Never(prev, label, minutes, cv) ==
    label

StickyAfterFilter(prev, label, minutes, cv) ==
    IF /\ prev = "rem"
       /\ label = "nrem"
       /\ minutes >= SLEEP_LATENCY
       /\ sticky_score_of(minutes, cv, CV_THRESHOLD) > 1500
    THEN "rem"
    ELSE label

\* ---- run_adaptive_classifier, body of "for hr in stage_hrs" ----
adaptive_sample(st, c, bpm, minutes) ==
    LET hrs == PushBounded(st.recent_hrs, bpm, MAX_RECENT_HR)
        rmssd == rmssd_of(hrs)
        mean_diff == mean_diff_of(hrs)
        hist == PushBounded(st.rmssd_history, rmssd, MAX_RMSSD_HISTORY)
        cv == cv_inline(hist)
        priors == c.params.awake_prior
        dynamic_thresh ==
            get_dynamic_threshold(priors, c.params.mean_diff_threshold,
                                  c.use_dynamic_thresh, minutes)
        hr_signal == Min2(1000, Max2(0, (mean_diff - dynamic_thresh + 1500) \div 3))
        time_prior == get_learned_awake_prior(priors, minutes)
        \* 0.7 * hr_signal + 0.3 * time_prior, in ten-thousandths
        awake_score == 7 * hr_signal + 3 * time_prior
        cas1 == IF c.use_time_prior
                THEN st.consecutive_awake_signals
                ELSE IF mean_diff > dynamic_thresh
                     THEN st.consecutive_awake_signals + 1
                     ELSE 0
        raw_awake == IF c.use_time_prior
                     THEN awake_score > 4000
                     ELSE cas1 >= AWAKE_CONSECUTIVE_REQUIRED
        gate == rem_gate(minutes, cv, CV_THRESHOLD, st.consecutive_rem_signals)
        raw_predicted == IF raw_awake THEN "awake" ELSE gate.raw
        crs1 == IF raw_awake THEN 0 ELSE gate.crs
        filt == IF c.use_transitions
                THEN TransitionFilter(c.params.transitions, 120,
                                      st.prev_predicted, raw_predicted)
                ELSE [fired |-> FALSE, label |-> raw_predicted]
        predicted == StickyAfterFilter(st.prev_predicted, filt.label, minutes, cv)
        cas2 == IF ~c.use_time_prior /\ predicted # "awake" THEN 0 ELSE cas1
    IN  [st |-> NewState(hrs, hist, crs1, cas2, predicted),
         out |-> Diag(minutes, cv, raw_awake,
                      rem_score_of(minutes, cv, CV_THRESHOLD),
                      raw_predicted, filt.fired, filt.label, predicted,
                      st.prev_predicted, crs1)]

\* hysteresis of run_baseline / two_stage_v2: inside the not-awake branch,
\* with the gate's own rem_score and no minutes test
StickyInGate(prev, label, score) ==
    IF prev = "rem" /\ label = "nrem" /\ score > 1500 THEN "rem" ELSE label

\* variant: a sample without the signal leaves the awake counter as it is
two_stage_decide_NoReset(st, hrs, hist, cv, awake_thresh, awake_consec, cvt, minutes) ==
    LET mean_diff == mean_diff_of(hrs)
        cas1 == IF mean_diff > awake_thresh
                THEN st.consecutive_awake_signals + 1
                ELSE st.consecutive_awake_signals
        is_awake == cas1 >= awake_consec
        score == rem_score_of(minutes, cv, cvt)
        gate == rem_gate(minutes, cv, cvt, st.consecutive_rem_signals)
        predicted == IF is_awake
                     THEN "awake"
                     ELSE StickyInGate(st.prev_predicted, gate.raw, score)
        crs1 == IF is_awake THEN 0 ELSE gate.crs
        raw == IF is_awake THEN "awake" ELSE gate.raw
    IN  [st |-> NewState(hrs, hist, crs1, cas1, predicted),
         out |-> Diag(minutes, cv, is_awake, score, raw, FALSE, raw,
                      predicted, st.prev_predicted, crs1)]

\* the decision part shared by two_stage_v2.run_classifier and run_baseline,
\* from "awake_signal = mean_diff > awake_thresh" to "prev_predicted = predicted"
two_stage_decide(st, hrs, hist, cv, awake_thresh, awake_consec, cvt, minutes) ==
    LET mean_diff == mean_diff_of(hrs)
        cas1 == IF mean_diff > awake_thresh
                THEN st.consecutive_awake_signals + 1
                ELSE 0
        is_awake == cas1 >= awake_consec
        score == rem_score_of(minutes, cv, cvt)
        gate == rem_gate(minutes, cv, cvt, st.consecutive_rem_signals)
        predicted == IF is_awake
                     THEN "awake"
                     ELSE StickyInGate(st.prev_predicted, gate.raw, score)
        crs1 == IF is_awake THEN 0 ELSE gate.crs
        raw == IF is_awake THEN "awake" ELSE gate.raw
    IN  [st |-> NewState(hrs, hist, crs1, cas1, predicted),
         out |-> Diag(minutes, cv, is_awake, score, raw, FALSE, raw,
                      predicted, st.prev_predicted, crs1)]

\* ---- two_stage_v2.run_classifier, body of "for hr in stage_hrs" ----
two_stage_sample(st, awake_thresh, awake_consec, cvt, bpm, minutes) ==
    LET hrs == PushBounded(st.recent_hrs, bpm, MAX_RECENT_HR)
        hist == PushBounded(st.rmssd_history, rmssd_of(hrs), MAX_RMSSD_HISTORY)
    IN  two_stage_decide(st, hrs, hist, compute_cv(hist), awake_thresh,
                         awake_consec, cvt, minutes)

\* ---- compare_all_options.run_baseline, body of "for hr in stage_hrs":
\*      AWAKE_CONSECUTIVE_REQUIRED = 1, CV_THRESHOLD = 0.20 and the
\*      "mean_rmssd > 0.1" form of the CV ----
baseline_sample(st, awake_thresh, bpm, minutes) ==
    LET hrs == PushBounded(st.recent_hrs, bpm, MAX_RECENT_HR)
        hist == PushBounded(st.rmssd_history, rmssd_of(hrs), MAX_RMSSD_HISTORY)
    IN  two_stage_decide(st, hrs, hist, cv_inline(hist), awake_thresh,
                         AWAKE_CONSECUTIVE_REQUIRED, CV_THRESHOLD, minutes)

\* compare_all_options.TRANSITION_PROBS, in thousandths
TRANSITION_PROBS ==
    [awake |-> [awake |-> 0, nrem |-> 890, rem |-> 110],
     nrem |-> [awake |-> 430, nrem |-> 370, rem |-> 200],
     rem |-> [awake |-> 490, nrem |-> 510, rem |-> 0]]

\* ---- compare_all_options.run_option_b, body of "for hr in stage_hrs" ----
option_b_sample(st, awake_thresh, bpm, minutes) ==
    LET hrs == PushBounded(st.recent_hrs, bpm, MAX_RECENT_HR)
        rmssd == rmssd_of(hrs)
        mean_diff == mean_diff_of(hrs)
        hist == PushBounded(st.rmssd_history, rmssd, MAX_RMSSD_HISTORY)
        cv == cv_inline(hist)
        cas1 == IF mean_diff > awake_thresh
                THEN st.consecutive_awake_signals + 1
                ELSE 0
        raw_awake == cas1 >= AWAKE_CONSECUTIVE_REQUIRED
        score == rem_score_of(minutes, cv, CV_THRESHOLD)
        gate == rem_gate(minutes, cv, CV_THRESHOLD, st.consecutive_rem_signals)
        raw_predicted == IF raw_awake THEN "awake" ELSE gate.raw
        \* the counter is left alone when awake fires or minutes < 70
        crs1 == IF raw_awake \/ minutes < SLEEP_LATENCY
                THEN st.consecutive_rem_signals
                ELSE gate.crs
        filt == TransitionFilter(TRANSITION_PROBS, 150, st.prev_predicted,
                                 raw_predicted)
        predicted == StickyAfterFilter(st.prev_predicted, filt.label, minutes, cv)
        cas2 == IF predicted # "awake" THEN 0 ELSE cas1
        crs2 == IF predicted # "rem" THEN 0 ELSE crs1
    IN  [st |-> NewState(hrs, hist, crs2, cas2, predicted),
         out |-> Diag(minutes, cv, raw_awake, score, raw_predicted,
                      filt.fired, filt.label, predicted, st.prev_predicted,
                      crs2)]

\* statistics.stdev(xs) > limit, for integer xs and an integer limit:
\* sample variance = (n*sum x^2 - (sum x)^2) / (n*(n-1))
SampleStdevExceeds(xs, limit) ==
    SpreadOf(xs) > limit * limit * Len(xs) * (Len(xs) - 1)

\* ---- debug_python_vs_ts.classify_step ----
classify_step(minutes, hist, crs, prev_stage, recent) ==
    LET cv == compute_cv(hist)
        score == rem_score_of(minutes, cv, CV_THRESHOLD)
        gate == rem_gate(minutes, cv, CV_THRESHOLD, crs)
        hr_high == IF Len(recent) >= 3 THEN SampleStdevExceeds(recent, 5) ELSE FALSE
        in_else == minutes >= SLEEP_LATENCY /\ ~(score > 2500)
        stage0 == IF in_else /\ cv > 500 /\ hr_high THEN "awake" ELSE gate.raw
        stage == IF prev_stage = "rem" /\ stage0 # "rem" /\ score > 1500
                 THEN "rem" ELSE stage0
    IN  [stage |-> stage, new_consecutive |-> gate.crs, cv |-> cv,
         rem_score |-> score, raw |-> stage0]

\* ---- run_debug_on_first_session, body of "for hr in stage_hrs" ----
debug_sample(st, bpm, minutes) ==
    LET hrs == PushBounded(st.recent_hrs, bpm, MAX_RECENT_HR)
        hist == PushBounded(st.rmssd_history, rmssd_of(hrs), MAX_RMSSD_HISTORY)
        r == classify_step(minutes, hist, st.consecutive_rem_signals,
                           st.prev_predicted,
                           IF Len(hrs) >= 5 THEN LastN(hrs, 5) ELSE hrs)
    IN  [st |-> NewState(hrs, hist, r.new_consecutive,
                         st.consecutive_awake_signals, r.stage),
         out |-> Diag(minutes, r.cv, r.raw = "awake", r.rem_score, r.raw,
                      FALSE, r.raw, r.stage, st.prev_predicted,
                      r.new_consecutive)]

\* ---- hybrid_classifier.py ----
\* get_rem_probability_from_time, in ten-thousandths
get_rem_probability_from_time(minutes) ==
    IF minutes < SLEEP_LATENCY
    THEN 0
    ELSE LET cycle == minutes \div CYCLE_LENGTH
             base_prob == Min2(3500, 1000 + cycle * 800)
             pos100 == (minutes % CYCLE_LENGTH) * 100
         IN  IF pos100 >= 65 * CYCLE_LENGTH THEN base_prob * 2
             ELSE IF pos100 >= 50 * CYCLE_LENGTH THEN (base_prob * 13) \div 10
             ELSE (base_prob * 3) \div 10

\* HybridClassifier.add_hr: 15 values, RMSSD only from 3 values on
hybrid_add_hr(st, bpm) ==
    LET hrs == PushBounded(st.recent_hrs, bpm, 15)
    IN  [hrs |-> hrs,
         hist |-> IF Len(hrs) >= 3
                  THEN PushBounded(st.rmssd_history,
                                   ISqrt((10000 * SumSq(Diffs(hrs))) \div (Len(hrs) - 1)),
                                   10)
                  ELSE st.rmssd_history]

\* HybridClassifier.get_cv: statistics.stdev (n - 1) over the mean
hybrid_get_cv(h) ==
    IF Len(h) < 3 THEN 500
    ELSE IF SeqSum(h) < 10 * Len(h) THEN 500
         ELSE (1000 * ISqrt((SpreadOf(h) * Len(h)) \div (Len(h) - 1))) \div SeqSum(h)

\* HybridClassifier.classify after add_hr; cvt, wt, wcv in thousandths
hybrid_sample(st, cvt, wt, wcv, bpm, minutes) ==
    LET a == hybrid_add_hr(st, bpm)
        cv == hybrid_get_cv(a.hist)
        time_rem_prob == get_rem_probability_from_time(minutes)
        \* cv_rem_signal in tenths: 0, 1.0 or 1.5
        cv_rem_signal == IF cv < (cvt * 7) \div 10 THEN 15
                         ELSE IF cv < cvt THEN 10 ELSE 0
        score == (wt * time_rem_prob) \div 1000 + (wcv * cv_rem_signal) \div 2
        crs == st.consecutive_rem_signals
        awake_like == /\ cv > 500
                      /\ Len(a.hrs) >= 5
                      /\ SampleStdevExceeds(LastN(a.hrs, 5), 5)
        predicted0 == IF minutes < SLEEP_LATENCY THEN "nrem"
                      ELSE IF score > 2500
                           THEN IF crs + 1 >= 2 THEN "rem" ELSE "nrem"
                           ELSE IF awake_like THEN "awake" ELSE "nrem"
        crs1 == IF minutes < SLEEP_LATENCY THEN crs
                ELSE IF score > 2500 THEN crs + 1 ELSE 0
        predicted == IF st.prev_predicted = "rem" /\ predicted0 # "rem" /\ score > 1500
                     THEN "rem" ELSE predicted0
    IN  [st |-> NewState(a.hrs, a.hist, crs1, st.consecutive_awake_signals,
                         predicted),
         out |-> Diag(minutes, cv, predicted0 = "awake", score, predicted0,
                      FALSE, predicted0, predicted, st.prev_predicted, crs1)]

(***************************************************************************)
(* The classification runs                                                 *)
(***************************************************************************)
\* ---- bounds and input domains ----
NumSamples == 5
BaseTimes == <<0, 60, 150, 240, 245, 250, 255, 260>>
SampleTime(i) ==
    IF i <= Len(BaseTimes) THEN BaseTimes[i]
    ELSE BaseTimes[Len(BaseTimes)] + 5 * (i - Len(BaseTimes))
BpmValues == {60, 70}
ThreshChoices == {3000, 12000}

HrInputs ==
    {[i \in 1..NumSamples |-> [time |-> SampleTime(i), bpm |-> b[i]]]
        : b \in [1..NumSamples -> BpmValues]}

\* a transition table in which rem is the most frequent successor
RemHeavyTrans ==
    [awake |-> [awake |-> 100, nrem |-> 100, rem |-> 800],
     nrem |-> [awake |-> 100, nrem |-> 300, rem |-> 600],
     rem |-> [awake |-> 50, nrem |-> 450, rem |-> 500]]
\* a transition table in which waking is the most frequent successor of rem
WakeAfterRemTrans ==
    [awake |-> [awake |-> 0, nrem |-> 890, rem |-> 110],
     nrem |-> [awake |-> 430, nrem |-> 370, rem |-> 200],
     rem |-> [awake |-> 510, nrem |-> 490, rem |-> 0]]
TransChoices == {TRANSITION_PROBS, RemHeavyTrans, WakeAfterRemTrans}

EmptyPriors == [b \in {} |-> 0]
SomePriors == (0 :> 350) @@ (2 :> 10) @@ (8 :> 100)
PriorChoices == {EmptyPriors, SomePriors}

BaseCfg ==
    [variant |-> "adaptive", use_time_prior |-> FALSE, use_transitions |-> FALSE,
     use_dynamic_thresh |-> FALSE,
     params |-> [awake_prior |-> EmptyPriors, transitions |-> TRANSITION_PROBS,
                 mean_diff_threshold |-> 3000],
     awake_thresh |-> 3000, awake_consec |-> 1, cv_threshold |-> CV_THRESHOLD]

\* the parameter bundles a call reads: the transition table only with
\* use_transitions, the prior table only with a flag that consults it
AdaptiveCfgs ==
    {[BaseCfg EXCEPT !.use_time_prior = f[1], !.use_transitions = f[2],
                     !.use_dynamic_thresh = f[3],
                     !.params = [awake_prior |-> pr, transitions |-> tr,
                                 mean_diff_threshold |-> th]]
        : f \in BOOLEAN \X BOOLEAN \X BOOLEAN, pr \in PriorChoices,
          tr \in TransChoices, th \in ThreshChoices}

Cfgs ==
    {c \in AdaptiveCfgs :
        /\ (~c.use_transitions => c.params.transitions = TRANSITION_PROBS)
        /\ (~(c.use_time_prior \/ c.use_dynamic_thresh)
                => c.params.awake_prior = EmptyPriors)}
    \cup {[BaseCfg EXCEPT !.variant = "baseline", !.awake_thresh = th]
            : th \in ThreshChoices}
    \cup {[BaseCfg EXCEPT !.variant = "two_stage_v2", !.awake_thresh = th,
                          !.awake_consec = ac]
            : th \in ThreshChoices, ac \in {1, 2}}
    \cup {[BaseCfg EXCEPT !.variant = "option_b", !.awake_thresh = th]
            : th \in ThreshChoices}
    \cup {[BaseCfg EXCEPT !.variant = "hybrid", !.cv_threshold = 300]}
    \cup {[BaseCfg EXCEPT !.variant = "debug"]}

\* Sessions of five stage records over the sample times: the first record
\* ends at sample w1, the second starts at sample a2 and runs to the last
\* sample, three short records follow the data.
\*   a2 = w1 + 1 : the records share no sample
\*   a2 = w1     : the second record starts where the first ends
\*   a2 < w1     : the second record overlaps the first one
TailRecords ==
    <<[stage |-> "awake", start |-> SampleTime(NumSamples + 1),
       end |-> SampleTime(NumSamples + 1)],
      [stage |-> "deep", start |-> SampleTime(NumSamples + 1),
       end |-> SampleTime(NumSamples + 1)],
      [stage |-> "light", start |-> SampleTime(NumSamples + 1),
       end |-> SampleTime(NumSamples + 1)]>>

SessionOf(w1, a2) ==
    <<[stage |-> "light", start |-> SampleTime(1), end |-> SampleTime(w1)],
      [stage |-> "rem", start |-> SampleTime(a2),
       end |-> SampleTime(Max2(a2, NumSamples))]>> \o TailRecords

FullSessions ==
    UNION {{SessionOf(w1, a2) : a2 \in 1..(w1 + 1)} : w1 \in 1..NumSamples}

\* a session of four records, below the minimum of five
ShortSession ==
    <<[stage |-> "light", start |-> SampleTime(1), end |-> SampleTime(NumSamples)]>>
    \o TailRecords

SessionInputs == {<<s>> : s \in FullSessions \cup {ShortSession}}

\* ---- the record and sample loops ----
\* [hr for hr in hr_samples if start <= hr["time"] <= end], sorted by time
StageHrs(rec, samples) ==
    LET sel == SelectSeq(samples, LAMBDA h : rec.start <= h.time /\ h.time <= rec.end)
    IN  [i \in 1..Len(sel) |->
            [actual |-> normalize_stage(rec.stage), bpm |-> sel[i].bpm,
             time |-> sel[i].time]]

\* the samples "for stage_rec in session: for hr in stage_hrs" visits
SessionStream(session, samples) ==
    Flatten([j \in 1..Len(session) |-> StageHrs(session[j], samples)])

ZeroConfusion == [a \in Stages3 |-> [p \in Stages3 |-> 0]]

CurrentState ==
    NewState(recent_hrs, rmssd_history, consecutive_rem_signals,
             consecutive_awake_signals, prev_predicted)

Init ==
    /\ cfg \in Cfgs
    /\ hr_samples \in HrInputs
    /\ sessions \in SessionInputs
    /\ run_pc = "session"
    /\ si = 1
    /\ stream = <<>>
    /\ k = 1
    /\ recent_hrs = <<>>
    /\ rmssd_history = <<>>
    /\ consecutive_rem_signals = 0
    /\ consecutive_awake_signals = 0
    /\ prev_predicted = "nrem"
    /\ confusion = ZeroConfusion
    /\ log = <<>>
    /\ sleep_stages = <<>>
    /\ gap_hours = 4
    /\ seg_pc = "off"
    /\ seg_result = [raised |-> "none", sessions |-> <<>>]
    /\ AuxIdle

\* run_debug_on_first_session takes sessions[0] whatever its length; every
\* other loop skips a session of fewer than 5 records
ChecksLength == cfg.variant # "debug"

\* "if len(session) < 5: continue"
SkipSession ==
    /\ run_pc = "session"
    /\ si <= Len(sessions)
    /\ ChecksLength
    /\ Len(sessions[si]) < MIN_SESSION_RECORDS
    /\ si' = si + 1
    /\ UNCHANGED <<run_pc, stream, k, confusion, log>>
    /\ UNCHANGED stateVars
    /\ UNCHANGED inputVars
    /\ UNCHANGED segVars
    /\ UNCHANGED auxVars

\* per-session initialisation (or HybridClassifier(...) construction)
BeginSession ==
    /\ run_pc = "session"
    /\ si <= Len(sessions)
    /\ (ChecksLength => Len(sessions[si]) >= MIN_SESSION_RECORDS)
    /\ recent_hrs' = FreshState.recent_hrs
    /\ rmssd_history' = FreshState.rmssd_history
    /\ consecutive_rem_signals' = FreshState.consecutive_rem_signals
    /\ consecutive_awake_signals' = FreshState.consecutive_awake_signals
    /\ prev_predicted' = FreshState.prev_predicted
    /\ stream' = SessionStream(sessions[si], hr_samples)
    /\ k' = 1
    /\ run_pc' = "sample"
    /\ UNCHANGED <<si, confusion, log>>
    /\ UNCHANGED inputVars
    /\ UNCHANGED segVars
    /\ UNCHANGED auxVars

\* minutes = (hr["time"] - session_start).total_seconds() / 60
MinutesOf(t) == t - sessions[si][1].start

\* the common tail of every loop body: count the sample, remember the label
Commit(r) ==
    /\ recent_hrs' = r.st.recent_hrs
    /\ rmssd_history' = r.st.rmssd_history
    /\ consecutive_rem_signals' = r.st.consecutive_rem_signals
    /\ consecutive_awake_signals' = r.st.consecutive_awake_signals
    /\ prev_predicted' = r.st.prev_predicted
    /\ confusion' = [confusion EXCEPT ![stream[k].actual][r.out.predicted] = @ + 1]
    /\ log' = Append(log, r.out @@ [session |-> si, actual |-> stream[k].actual,
                                    time |-> stream[k].time])
    /\ k' = k + 1
    /\ UNCHANGED <<run_pc, si, stream>>
    /\ UNCHANGED inputVars
    /\ UNCHANGED segVars
    /\ UNCHANGED auxVars

AtSample(variant) ==
    /\ run_pc = "sample"
    /\ k <= Len(stream)
    /\ cfg.variant = variant

AdaptiveSample ==
    /\ AtSample("adaptive")
    /\ Commit(adaptive_sample(CurrentState, cfg, stream[k].bpm,
                              MinutesOf(stream[k].time)))

BaselineSample ==
    /\ AtSample("baseline")
    /\ Commit(baseline_sample(CurrentState, cfg.awake_thresh, stream[k].bpm,
                              MinutesOf(stream[k].time)))

TwoStageSample ==
    /\ AtSample("two_stage_v2")
    /\ Commit(two_stage_sample(CurrentState, cfg.awake_thresh, cfg.awake_consec,
                               cfg.cv_threshold, stream[k].bpm,
                               MinutesOf(stream[k].time)))

OptionBSample ==
    /\ AtSample("option_b")
    /\ Commit(option_b_sample(CurrentState, cfg.awake_thresh, stream[k].bpm,
                              MinutesOf(stream[k].time)))

HybridSample ==
    /\ AtSample("hybrid")
    /\ Commit(hybrid_sample(CurrentState, cfg.cv_threshold, 600, 400,
                            stream[k].bpm, MinutesOf(stream[k].time)))

DebugSample ==
    /\ AtSample("debug")
    /\ Commit(debug_sample(CurrentState, stream[k].bpm,
                           MinutesOf(stream[k].time)))

\* the record loop of the session is exhausted
EndSession ==
    /\ run_pc = "sample"
    /\ k > Len(stream)
    /\ si' = IF ChecksLength THEN si + 1 ELSE Len(sessions) + 1
    /\ run_pc' = "session"
    /\ UNCHANGED <<stream, k, confusion, log>>
    /\ UNCHANGED stateVars
    /\ UNCHANGED inputVars
    /\ UNCHANGED segVars
    /\ UNCHANGED auxVars

\* "return confusion"
Finish ==
    /\ run_pc = "session"
    /\ si > Len(sessions)
    /\ run_pc' = "done"
    /\ UNCHANGED <<si, stream, k, confusion, log>>
    /\ UNCHANGED stateVars
    /\ UNCHANGED inputVars
    /\ UNCHANGED segVars
    /\ UNCHANGED auxVars

Next ==
    \/ SkipSession
    \/ BeginSession
    \/ AdaptiveSample
    \/ BaselineSample
    \/ TwoStageSample
    \/ OptionBSample
    \/ HybridSample
    \/ DebugSample
    \/ EndSession
    \/ Finish

Spec == Init /\ [][Next]_vars

(***************************************************************************)
(* hmm_classifier.py: the emission model and Viterbi decoding.  Scores are *)
(* natural logarithms in thousandths; CV values are in thousandths and     *)
(* RMSSD values in hundredths.                                             *)
(***************************************************************************)
\* math.log of the values the model takes logarithms of, keyed by the value
\* in thousandths
LnMilli ==
    (1 :> -6908) @@ (10 :> -4605) @@ (150 :> -1897) @@ (250 :> -1386)
    @@ (300 :> -1204) @@ (750 :> -288) @@ (1000 :> 0) @@ (1250 :> 223)
    @@ (1500 :> 405) @@ (2000 :> 693) @@ (2500 :> 916)

\* math.log(INITIAL_PROBS[state] + 1e-10)
LogInitial == [awake |-> -1204, nrem |-> -357, rem |-> -23026]

\* math.log(TRANSITION_MATRIX[prev][curr] + 1e-10)
LogTransition ==
    [awake |-> [awake |-> -4605, nrem |-> -117, rem |-> -2303],
     nrem |-> [awake |-> -844, nrem |-> -994, rem |-> -1609],
     rem |-> [awake |-> -713, nrem |-> -673, rem |-> -6908]]

\* self.cv_params of the constructor, in thousandths
DefaultCvParams ==
    [awake |-> [mu |-> 400, sigma |-> 250],
     nrem |-> [mu |-> 450, sigma |-> 300],
     rem |-> [mu |-> 200, sigma |-> 150]]

\* self.rmssd_params of the constructor, in hundredths
DefaultRmssdParams ==
    [awake |-> [mu |-> 350, sigma |-> 200],
     nrem |-> [mu |-> 300, sigma |-> 250],
     rem |-> [mu |-> 250, sigma |-> 150]]

\* log of gaussian_pdf(x, mu, sigma); unit is the number of thousandths in
\* one unit of x, 919 is log(sqrt(2 pi))
gaussian_log(x, mu, sigma, unit) ==
    LET sg == IF sigma * unit < 10 THEN 10 \div unit ELSE sigma
    IN  (0 - (500 * (x - mu) * (x - mu)) \div (sg * sg)) - LnMilli[sg * unit] - 919

\* variant: rem is not held back in the first hour
time_factor_NoLatency(state, minutes) ==
    IF state # "rem" THEN 1000
    ELSE IF minutes < 60 THEN 1000
    ELSE IF minutes < 90 THEN 300
    ELSE Min2(1500, 500 + (minutes \div 90) * 250)

\* time_factor of emission_prob, in thousandths
time_factor(state, minutes) ==
    IF state # "rem" THEN 1000
    ELSE IF minutes < 60 THEN 1
    ELSE IF minutes < 90 THEN 300
    ELSE Min2(1500, 500 + (minutes \div 90) * 250)

\* math.log(self.emission_prob(state, cv, rmssd, minutes)) with the
\* constructor's parameters; the added 1e-10 is below the grid
emission_log(state, o) ==
    gaussian_log(o.cv, DefaultCvParams[state].mu, DefaultCvParams[state].sigma, 1)
    + gaussian_log(o.rmssd, DefaultRmssdParams[state].mu,
                   DefaultRmssdParams[state].sigma, 10)
    + LnMilli[time_factor(state, o.minutes)]

\* the loop "for state in STATES" before the time loop
\* a table over the three states with its entries computed once
Tabulated(f) == [awake |-> f["awake"], nrem |-> f["nrem"], rem |-> f["rem"]]

ViterbiInit(o) ==
    [V |-> Tabulated([s \in Stages3 |-> LogInitial[s] + emission_log(s, o)]),
     path |-> [s \in Stages3 |-> <<s>>]]

\* the score of reaching curr from prev
ViaPrev(V, prev, curr, o) == V[prev] + LogTransition[prev][curr] + emission_log(curr, o)

\* variant: the best predecessor is the best-scored state, whatever the
\* transition to curr costs
BestPrev_IgnoreTransition(V, curr, o) == ArgMaxNext(V)

\* "if prob > best_prob" over prev_state in STATES: the first best one
BestPrev(V, curr, o) ==
    ArgMaxNext(Tabulated([prev \in Stages3 |-> ViaPrev(V, prev, curr, o)]))

\* one pass of "for t in range(1, T)"
ViterbiStep(vp, o) ==
    [V |-> Tabulated([curr \in Stages3 |->
                        ViaPrev(vp.V, BestPrev(vp.V, curr, o), curr, o)]),
     path |-> Tabulated([curr \in Stages3 |->
                           Append(vp.path[BestPrev(vp.V, curr, o)], curr)])]

RECURSIVE ViterbiFrom(_, _, _)
ViterbiFrom(vp, observations, t) ==
    IF t > Len(observations) THEN vp
    ELSE ViterbiFrom(ViterbiStep(vp, observations[t]), observations, t + 1)

\* HMMClassifier.viterbi
viterbi(observations) ==
    IF Len(observations) = 0 THEN <<>>
    ELSE LET vp == ViterbiFrom(ViterbiInit(observations[1]), observations, 2)
         IN  vp.path[ArgMaxNext(vp.V)]

(***************************************************************************)
(* The separability threshold of learn_parameters (lines 130-151)          *)
(***************************************************************************)
\* statistics.mean, in the unit of xs
MeanOf(xs) == SeqSum(xs) \div Len(xs)

\* statistics.stdev of thousandths, computed on hundredths
SampleStdev(xs) ==
    LET ys == [i \in 1..Len(xs) |-> xs[i] \div 10]
    IN  10 * ISqrt(SpreadOf(ys) \div (Len(ys) * (Len(ys) - 1)))

Ascending(xs) == SortSeq(xs, LAMBDA a, b : a < b)

\* variant: the average of the two percentiles is returned without a floor
learned_threshold_NoFloor(diffs) ==
    LET awake_diffs == diffs["awake"]
        sleep_diffs == diffs["nrem"] \o diffs["rem"]
    IN  IF awake_diffs # <<>> /\ sleep_diffs # <<>>
        THEN LET sleep_p75 == Ascending(sleep_diffs)[(3 * Len(sleep_diffs)) \div 4 + 1]
                 awake_p25 == Ascending(awake_diffs)[Len(awake_diffs) \div 4 + 1]
             IN  (sleep_p75 + awake_p25) \div 2
        ELSE 3000

\* lines 130-151
learned_threshold(diffs) ==
    LET awake_diffs == diffs["awake"]
        sleep_diffs == diffs["nrem"] \o diffs["rem"]
    IN  IF awake_diffs # <<>> /\ sleep_diffs # <<>>
        THEN LET sleep_mean == MeanOf(sleep_diffs)
                 sleep_std == IF Len(sleep_diffs) > 1
                              THEN SampleStdev(sleep_diffs) ELSE 1000
                 sleep_p75 == Ascending(sleep_diffs)[(3 * Len(sleep_diffs)) \div 4 + 1]
                 awake_p25 == Ascending(awake_diffs)[Len(awake_diffs) \div 4 + 1]
             IN  Max2(sleep_mean + sleep_std, (sleep_p75 + awake_p25) \div 2)
        ELSE 3000

(***************************************************************************)
(* Single calls of the pure functions (specification SpecFn): the nested   *)
(* get_dynamic_threshold of run_adaptive_classifier and the two forms of   *)
(* the CV computation, each applied once to arguments drawn from bounded   *)
(* sets.                                                                   *)
(***************************************************************************)
\* the run and segmenter variables while no loop and no segmentation runs
LoopsIdle ==
    /\ sleep_stages = <<>>
    /\ gap_hours = 4
    /\ seg_pc = "off"
    /\ seg_result = [raised |-> "none", sessions |-> <<>>]
    /\ cfg = [variant |-> "none"]
    /\ hr_samples = <<>>
    /\ sessions = <<>>
    /\ run_pc = "off"
    /\ si = 0
    /\ stream = <<>>
    /\ k = 0
    /\ recent_hrs = <<>>
    /\ rmssd_history = <<>>
    /\ consecutive_rem_signals = 0
    /\ consecutive_awake_signals = 0
    /\ prev_predicted = "nrem"
    /\ confusion = <<>>
    /\ log = <<>>

\* awake priors around the two cut points 0.05 and 0.25, in thousandths
PriorValues == {0, 49, 50, 51, 100, 249, 250, 251, 350, 1000}
BaseThresholds == {2000, 3000, 4000}
DynMinutes == {0, 45}

DynCalls ==
    {[fn |-> "get_dynamic_threshold", priors |-> pr, base_threshold |-> b,
      use_dynamic_thresh |-> u, minutes |-> m]
        : pr \in {EmptyPriors} \cup {(0 :> p) : p \in PriorValues},
          b \in BaseThresholds, u \in BOOLEAN, m \in DynMinutes}

\* RMSSD histories, in hundredths: 0.10 is the cut point of the mean test,
\* 10.00 the value pushed for a buffer of one heart rate
MaxHist == 4
HistValues == {0, 10, 20, 1000}
Histories == UNION {[1..n -> HistValues] : n \in 0..MaxHist}

CvCalls ==
    {[fn |-> f, history |-> h] : f \in {"cv_inline", "compute_cv"}, h \in Histories}

\* heart-rate buffers handed to the RMSSD computation
MaxBuf == 4
BufValues == {58, 60, 70}
HrBuffers == UNION {[1..n -> BufValues] : n \in 0..MaxBuf}

RmssdCalls == {[fn |-> "compute_rmssd", hrs |-> b] : b \in HrBuffers}

\* mean_diff observations per stage, in thousandths, as learn_parameters
\* collects them; the sleep observations are split between nrem and rem
MaxObs == 4
ObsValues == {0, 3000, 10000}
Observations == UNION {[1..n -> ObsValues] : n \in 0..MaxObs}

ThresholdCalls ==
    {[fn |-> "learned_threshold",
      diffs |-> [awake |-> a, nrem |-> SubSeq(s, 1, Len(s) \div 2),
                 rem |-> SubSeq(s, Len(s) \div 2 + 1, Len(s))]]
        : a \in Observations, s \in Observations}

\* observation sequences handed to viterbi
MaxT == 4
ObsChoices ==
    {[cv |-> 200, rmssd |-> 250, minutes |-> 200],
     [cv |-> 400, rmssd |-> 350, minutes |-> 30],
     [cv |-> 450, rmssd |-> 300, minutes |-> 75],
     [cv |-> 200, rmssd |-> 250, minutes |-> 30]}
ObsSequences == UNION {[1..n -> ObsChoices] : n \in 0..MaxT}

ViterbiCalls == {[fn |-> "viterbi", observations |-> o] : o \in ObsSequences}

\* variant: each cut point belongs to the interval below it
get_awake_prior_Inclusive(minutes) ==
    IF minutes <= 30 THEN 350
    ELSE IF minutes <= 60 THEN 10
    ELSE IF minutes <= 90 THEN 330
    ELSE IF minutes <= 330 THEN 100
    ELSE IF minutes <= 360 THEN 300
    ELSE Min2(650, 300 + (minutes - 360) * 3)

\* get_awake_prior of compare_all_options.py and two_stage_with_priors.py,
\* in thousandths
get_awake_prior(minutes) ==
    IF minutes < 30 THEN 350
    ELSE IF minutes < 60 THEN 10
    ELSE IF minutes < 90 THEN 330
    ELSE IF minutes < 330 THEN 100
    ELSE IF minutes < 360 THEN 300
    ELSE Min2(650, 300 + (minutes - 360) * 3)

\* minutes on both sides of every cut point, and around the point where the
\* ramp reaches its cap
AwakePriorMinutes ==
    {0, 29, 30, 31, 59, 60, 61, 89, 90, 91, 200, 329, 330, 331, 359, 360, 361,
     400, 476, 477, 600, 900}

AwakePriorCalls == {[fn |-> "get_awake_prior", minutes |-> m] : m \in AwakePriorMinutes}

\* every minute of a night of ten hours
MaxRemMinute == 600
RemPropensityCalls ==
    {[fn |-> "get_time_based_rem_probability", minutes |-> m] : m \in 0..MaxRemMinute}

\* learned prior tables with gaps, and minutes in and between their bins
SparsePriors == (1 :> 200) @@ (5 :> 400) @@ (6 :> 0)
LearnedPriorMinutes == {0, 29, 30, 45, 60, 89, 90, 119, 120, 150, 179, 180, 210, 240, 400}
LearnedPriorCalls ==
    {[fn |-> "get_learned_awake_prior", priors |-> pr, minutes |-> m] :
        pr \in {EmptyPriors, SomePriors, SparsePriors}, m \in LearnedPriorMinutes}

\* a float result: its value in hundredths and how many units in the last
\* place it lies from the correctly rounded one
FloatResult(h, u) == [hundredths |-> h, last_place |-> u]

\* sum of (hrs[i] - hrs[i-1]) squared over range(1, len(hrs))
SquaredDiffSum(hrs) ==
    SeqSum([i \in 1..(Len(hrs) - 1) |-> (hrs[i + 1] - hrs[i]) * (hrs[i + 1] - hrs[i])])

\* the root of s / n has an exact float
ExactRoot(s, n) ==
    /\ (10000 * s) % n = 0
    /\ ISqrt((10000 * s) \div n) * ISqrt((10000 * s) \div n) = (10000 * s) \div n

\* math.sqrt(s / n): the correctly rounded root
SqrtOutcomes(s, n) == {FloatResult(ISqrt((10000 * s) \div n), 0)}

\* (s / n) ** 0.5: the pow of the C library, exact where the root is exact
\* and within one unit in the last place elsewhere
PowHalfOutcomes(s, n) ==
    IF ExactRoot(s, n) THEN SqrtOutcomes(s, n)
    ELSE {FloatResult(ISqrt((10000 * s) \div n), u) : u \in {0 - 1, 0, 1}}

\* compute_rmssd of debug_python_vs_ts.py: the divisor is len(hrs) - 1
pvt_compute_rmssd(hrs) ==
    IF Len(hrs) < 2 THEN {FloatResult(1000, 0)}
    ELSE SqrtOutcomes(SquaredDiffSum(hrs), Len(hrs) - 1)

\* compute_rmssd of simulate_classifier.py: the divisor is len(diffs_squared)
sim_compute_rmssd(hrs) ==
    IF Len(hrs) < 2 THEN {FloatResult(1000, 0)}
    ELSE LET diffs_squared ==
                 [i \in 1..(Len(hrs) - 1) |-> (hrs[i + 1] - hrs[i]) * (hrs[i + 1] - hrs[i])]
         IN  PowHalfOutcomes(SeqSum(diffs_squared), Len(diffs_squared))

\* the buffers the variants of compute_rmssd are called with
VariantBuffers == HrBuffers \cup {<<60, 60, 60, 60, 59, 73>>}
VariantCalls ==
    {[fn |-> f, hrs |-> b] :
        f \in {"debug_python_vs_ts.compute_rmssd", "simulate_classifier.compute_rmssd"},
        b \in VariantBuffers}

\* a metric is a quotient of counts; "n / d if d > 0 else 0" is 0 / 1 for
\* a denominator of zero, and a division by zero raises
Quotient(n, d) ==
    IF d = 0 THEN [raised |-> "ZeroDivisionError", num |-> 0, den |-> 0]
    ELSE [raised |-> "none", num |-> n, den |-> d]

QuotientOrZero(n, d) == IF d > 0 THEN Quotient(n, d) ELSE Quotient(0, 1)

\* sum(sum(row.values()) for row in confusion.values())
TotalOf(c) ==
    LET RowSum(row) == row["awake"] + row["nrem"] + row["rem"]
    IN  RowSum(c["awake"]) + RowSum(c["nrem"]) + RowSum(c["rem"])

\* sum(confusion[s][s] for s in STATES)
CorrectOf(c) == c["awake"]["awake"] + c["nrem"]["nrem"] + c["rem"]["rem"]

\* variant: the accuracy is divided without looking at the total
calc_metrics_Unguarded(c) ==
    LET rem_tp == c["rem"]["rem"]
        rem_fn == c["rem"]["awake"] + c["rem"]["nrem"]
        awake_tp == c["awake"]["awake"]
        awake_fn == c["awake"]["nrem"] + c["awake"]["rem"]
        awake_fp == c["nrem"]["awake"] + c["rem"]["awake"]
    IN  [accuracy |-> Quotient(CorrectOf(c), TotalOf(c)),
         rem_sens |-> QuotientOrZero(rem_tp, rem_tp + rem_fn),
         awake_sens |-> QuotientOrZero(awake_tp, awake_tp + awake_fn),
         awake_prec |-> QuotientOrZero(awake_tp, awake_tp + awake_fp),
         confusion |-> c]

calc_metrics(c) ==
    LET rem_tp == c["rem"]["rem"]
        rem_fn == c["rem"]["awake"] + c["rem"]["nrem"]
        awake_tp == c["awake"]["awake"]
        awake_fn == c["awake"]["nrem"] + c["awake"]["rem"]
        awake_fp == c["nrem"]["awake"] + c["rem"]["awake"]
    IN  [accuracy |-> QuotientOrZero(CorrectOf(c), TotalOf(c)),
         rem_sens |-> QuotientOrZero(rem_tp, rem_tp + rem_fn),
         awake_sens |-> QuotientOrZero(awake_tp, awake_tp + awake_fn),
         awake_prec |-> QuotientOrZero(awake_tp, awake_tp + awake_fp),
         confusion |-> c]

\* 2 * rem_prec * rem_sens / (rem_prec + rem_sens) if the sum is positive
F1Of(prec, sens) ==
    LET sum_num == prec.num * sens.den + sens.num * prec.den
        sum_den == prec.den * sens.den
    IN  IF sum_num > 0
        THEN Quotient(2 * prec.num * sens.num * sum_den, sum_den * sum_num)
        ELSE Quotient(0, 1)

\* the metrics at the end of run_hmm_classifier
rem_metrics(c) ==
    LET rem_tp == c["rem"]["rem"]
        rem_fn == c["rem"]["awake"] + c["rem"]["nrem"]
        rem_fp == c["awake"]["rem"] + c["nrem"]["rem"]
        rem_tn == c["awake"]["awake"] + c["awake"]["nrem"]
                  + c["nrem"]["awake"] + c["nrem"]["nrem"]
        rem_sens == QuotientOrZero(rem_tp, rem_tp + rem_fn)
        rem_prec == QuotientOrZero(rem_tp, rem_tp + rem_fp)
    IN  [accuracy |-> QuotientOrZero(CorrectOf(c), TotalOf(c)),
         rem_sensitivity |-> rem_sens,
         rem_specificity |-> QuotientOrZero(rem_tn, rem_tn + rem_fp),
         rem_precision |-> rem_prec,
         rem_f1 |-> F1Of(rem_prec, rem_sens),
         confusion |-> c]

\* the confusion matrices the metrics are computed from
\* are tallied from at most MaxPairs pairs of an actual and a predicted stage
MaxPairs == 4
TallyOf(pairs) ==
    [a \in Stages3 |-> [p \in Stages3 |->
        Cardinality({i \in 1..Len(pairs) : pairs[i] = <<a, p>>})]]
ConfusionChoices ==
    {TallyOf(pairs) : pairs \in UNION {[1..n -> Stages3 \X Stages3] : n \in 0..MaxPairs}}
MetricsCalls ==
    {[fn |-> f, confusion |-> c] :
        f \in {"calc_metrics", "rem_metrics"}, c \in ConfusionChoices}

\* the states and minutes emission_prob is called with
EmissionCalls ==
    {[fn |-> "emission_prob", state |-> s,
      o |-> [cv |-> 200, rmssd |-> 250, minutes |-> m]]
        : s \in Stages3, m \in 0..MaxRemMinute}

FnCalls ==
    DynCalls \cup CvCalls \cup RmssdCalls \cup ThresholdCalls \cup ViterbiCalls
    \cup AwakePriorCalls \cup RemPropensityCalls \cup LearnedPriorCalls \cup EmissionCalls
    \cup MetricsCalls \cup VariantCalls

InitFn ==
    /\ fn_call \in FnCalls
    /\ fn_ret = [done |-> FALSE]
    /\ workers = <<>>
    /\ LoopsIdle

Returns(value) ==
    /\ ~fn_ret.done
    /\ fn_ret' = [done |-> TRUE, value |-> value]
    /\ UNCHANGED <<fn_call, workers>>
    /\ UNCHANGED segVars
    /\ UNCHANGED runVars

CallDynamicThreshold ==
    /\ fn_call.fn = "get_dynamic_threshold"
    /\ Returns(get_dynamic_threshold(fn_call.priors, fn_call.base_threshold,
                                     fn_call.use_dynamic_thresh, fn_call.minutes))

CallCvInline ==
    /\ fn_call.fn = "cv_inline"
    /\ Returns(cv_inline(fn_call.history))

CallComputeCv ==
    /\ fn_call.fn = "compute_cv"
    /\ Returns(compute_cv(fn_call.history))

CallComputeRmssd ==
    /\ fn_call.fn = "compute_rmssd"
    /\ Returns(rmssd_of(fn_call.hrs))

CallLearnedThreshold ==
    /\ fn_call.fn = "learned_threshold"
    /\ Returns(learned_threshold(fn_call.diffs))

CallViterbi ==
    /\ fn_call.fn = "viterbi"
    /\ Returns(viterbi(fn_call.observations))

\* emission_prob returns the product; its local time_factor is kept beside it
CallEmissionProb ==
    /\ fn_call.fn = "emission_prob"
    /\ Returns([time_factor |-> time_factor(fn_call.state, fn_call.o.minutes),
                log |-> emission_log(fn_call.state, fn_call.o)])

CallCalcMetrics ==
    /\ fn_call.fn = "calc_metrics"
    /\ Returns(calc_metrics(fn_call.confusion))

CallRemMetrics ==
    /\ fn_call.fn = "rem_metrics"
    /\ Returns(rem_metrics(fn_call.confusion))

CallPvtComputeRmssd ==
    /\ fn_call.fn = "debug_python_vs_ts.compute_rmssd"
    /\ \E v \in pvt_compute_rmssd(fn_call.hrs) : Returns(v)

CallSimComputeRmssd ==
    /\ fn_call.fn = "simulate_classifier.compute_rmssd"
    /\ \E v \in sim_compute_rmssd(fn_call.hrs) : Returns(v)

CallAwakePrior ==
    /\ fn_call.fn = "get_awake_prior"
    /\ Returns(get_awake_prior(fn_call.minutes))

CallTimeBasedRemProbability ==
    /\ fn_call.fn = "get_time_based_rem_probability"
    /\ Returns(time_rem_prob_of(fn_call.minutes))

CallLearnedAwakePrior ==
    /\ fn_call.fn = "get_learned_awake_prior"
    /\ Returns(get_learned_awake_prior(fn_call.priors, fn_call.minutes))

NextFn ==
    \/ CallDynamicThreshold
    \/ CallCvInline
    \/ CallComputeCv
    \/ CallComputeRmssd
    \/ CallLearnedThreshold
    \/ CallViterbi
    \/ CallAwakePrior
    \/ CallTimeBasedRemProbability
    \/ CallLearnedAwakePrior
    \/ CallEmissionProb
    \/ CallCalcMetrics
    \/ CallRemMetrics
    \/ CallPvtComputeRmssd
    \/ CallSimComputeRmssd

SpecFn == InitFn /\ [][NextFn]_vars

(***************************************************************************)
(* The feature buffers over a long session (specification SpecBuf): the    *)
(* first lines of the body of "for hr in stage_hrs", lines 226-245 of      *)
(* run_adaptive_classifier, repeated past both capacities.  log keeps      *)
(* every bpm that arrived and every RMSSD that was computed.               *)
(***************************************************************************)
MaxPushes == 22
MaxSwitches == 2

\* number of places where the arriving bpm differs from the one before
SwitchCount(l) == Cardinality({i \in 1..(Len(l) - 1) : l[i].bpm # l[i + 1].bpm})

InitBuf ==
    /\ sleep_stages = <<>>
    /\ gap_hours = 4
    /\ seg_pc = "off"
    /\ seg_result = [raised |-> "none", sessions |-> <<>>]
    /\ cfg = [variant |-> "none"]
    /\ hr_samples = <<>>
    /\ sessions = <<>>
    /\ run_pc = "features"
    /\ si = 0
    /\ stream = <<>>
    /\ k = 0
    /\ recent_hrs = <<>>
    /\ rmssd_history = <<>>
    /\ consecutive_rem_signals = 0
    /\ consecutive_awake_signals = 0
    /\ prev_predicted = "nrem"
    /\ confusion = <<>>
    /\ log = <<>>
    /\ AuxIdle

\* recent_hrs.append / pop(0), rmssd, rmssd_history.append / pop(0)
BufPush ==
    /\ run_pc = "features"
    /\ Len(log) < MaxPushes
    /\ \E bpm \in BpmValues :
          LET hrs == PushBounded(recent_hrs, bpm, MAX_RECENT_HR)
              rmssd == rmssd_of(hrs)
              entry == [bpm |-> bpm, rmssd |-> rmssd]
          IN  /\ SwitchCount(Append(log, entry)) <= MaxSwitches
              /\ recent_hrs' = hrs
              /\ rmssd_history' = PushBounded(rmssd_history, rmssd, MAX_RMSSD_HISTORY)
              /\ log' = Append(log, entry)
    /\ UNCHANGED <<cfg, hr_samples, sessions, run_pc, si, stream, k,
                   consecutive_rem_signals, consecutive_awake_signals,
                   prev_predicted, confusion>>
    /\ UNCHANGED segVars
    /\ UNCHANGED auxVars

NextBuf == BufPush

SpecBuf == InitBuf /\ [][NextBuf]_vars

(***************************************************************************)
(* learn_parameters.  ls is the state of its loops:                        *)
(*   [time_bins, transitions, mean_diffs_by_stage, recent_hrs, prev_stage] *)
(* Counts are integers, mean_diff values and thresholds thousandths, the   *)
(* awake prior thousandths, a learned probability the exact quotient       *)
(* [num, den].                                                             *)
(***************************************************************************)
ZeroBin == [awake |-> 0, nrem |-> 0, rem |-> 0, total |-> 0]

LearnStart ==
    [time_bins |-> EmptyPriors,
     transitions |-> ZeroConfusion,
     mean_diffs_by_stage |-> [st \in Stages3 |-> <<>>],
     recent_hrs |-> <<>>,
     prev_stage |-> "none"]

\* time_bins[bin_idx][actual] += 1; time_bins[bin_idx]["total"] += 1
CountInBin(bins, b, actual) ==
    LET old == IF b \in DOMAIN bins THEN bins[b] ELSE ZeroBin
        new == [old EXCEPT ![actual] = @ + 1, !.total = @ + 1]
    IN  IF b \in DOMAIN bins THEN [bins EXCEPT ![b] = new] ELSE bins @@ (b :> new)

\* body of "for hr in stage_hrs"
learn_sample(ls, h, session_start) ==
    LET hrs == PushBounded(ls.recent_hrs, h.bpm, MAX_RECENT_HR)
        bin_idx == BinOf(h.time - session_start)
    IN  [ls EXCEPT
            !.recent_hrs = hrs,
            !.time_bins = CountInBin(@, bin_idx, h.actual),
            !.mean_diffs_by_stage =
                IF Len(hrs) >= 2
                THEN [@ EXCEPT ![h.actual] = Append(@, mean_diff_of(hrs))]
                ELSE @]

RECURSIVE LearnSamples(_, _, _, _)
LearnSamples(ls, shs, i, session_start) ==
    IF i > Len(shs) THEN ls
    ELSE LearnSamples(learn_sample(ls, shs[i], session_start), shs, i + 1,
                      session_start)

\* body of "for stage_rec in session"
learn_record(ls, rec, samples, session_start) ==
    LET actual == normalize_stage(rec.stage)
        counted == IF ls.prev_stage # "none"
                   THEN [ls EXCEPT !.transitions[ls.prev_stage][actual] = @ + 1]
                   ELSE ls
    IN  LearnSamples([counted EXCEPT !.prev_stage = actual],
                     StageHrs(rec, samples), 1, session_start)

RECURSIVE LearnRecords(_, _, _, _)
LearnRecords(ls, session, j, samples) ==
    IF j > Len(session) THEN ls
    ELSE LearnRecords(learn_record(ls, session[j], samples, session[1].start),
                      session, j + 1, samples)

\* variant: prev_stage is not cleared at the start of a session
learn_session_start_KeepPrev(ls) ==
    [ls EXCEPT !.recent_hrs = <<>>]

\* recent_hrs = []; prev_stage = None
learn_session_start(ls) ==
    [ls EXCEPT !.recent_hrs = <<>>, !.prev_stage = "none"]

\* variant: sessions of any length are learned from
learn_session_NoMinimum(ls, session, samples) ==
    LearnRecords(learn_session_start(ls), session, 1, samples)

\* body of "for session in sessions"
learn_session(ls, session, samples) ==
    IF Len(session) < MIN_SESSION_RECORDS
    THEN ls
    ELSE LearnRecords(learn_session_start(ls), session, 1, samples)

RECURSIVE LearnSessions(_, _, _, _)
LearnSessions(ls, ss, i, samples) ==
    IF i > Len(ss) THEN ls
    ELSE LearnSessions(learn_session(ls, ss[i], samples), ss, i + 1, samples)

\* the accumulators after the session loop
learn_counts(samples, ss) == LearnSessions(LearnStart, ss, 1, samples)

\* awake / total per bin, in thousandths
learned_awake_prior(bins) ==
    [b \in DOMAIN bins |->
        IF bins[b].total > 0 THEN (1000 * bins[b].awake) \div bins[b].total
        ELSE 100]

\* count / total per source state, 0.33 for a source never seen
learned_transitions(trans) ==
    [f \in Stages3 |->
        LET total == trans[f]["awake"] + trans[f]["nrem"] + trans[f]["rem"]
        IN  [t \in Stages3 |->
                IF total > 0 THEN [num |-> trans[f][t], den |-> total]
                ELSE [num |-> 33, den |-> 100]]]

learn_parameters(samples, ss) ==
    LET ls == learn_counts(samples, ss)
        awake_diffs == ls.mean_diffs_by_stage["awake"]
        sleep_diffs == ls.mean_diffs_by_stage["nrem"] \o ls.mean_diffs_by_stage["rem"]
    IN  [awake_prior |-> learned_awake_prior(ls.time_bins),
         transitions |-> learned_transitions(ls.transitions),
         mean_diff_threshold |-> learned_threshold(ls.mean_diffs_by_stage),
         awake_mean_diff |-> IF awake_diffs # <<>> THEN MeanOf(awake_diffs) ELSE 5000,
         sleep_mean_diff |-> IF sleep_diffs # <<>> THEN MeanOf(sleep_diffs) ELSE 1500]

\* a learned probability in the thousandths the classification loop reads
Thousandths(q) == (1000 * q.num) \div q.den

\* the params dictionary as run_adaptive_classifier reads it
ParamsOf(learned) ==
    [awake_prior |-> learned.awake_prior,
     transitions |-> [f \in Stages3 |->
                        [t \in Stages3 |-> Thousandths(learned.transitions[f][t])]],
     mean_diff_threshold |-> learned.mean_diff_threshold]

(***************************************************************************)
(* main (specification SpecMain): learn_parameters on all sessions, then   *)
(* run_adaptive_classifier on the same sessions with the learned           *)
(* parameters and one of the flag settings of main; or, for the hybrid     *)
(* script, run_hybrid_classifier on the same sessions.  The data hold up   *)
(* to three nights more than four hours apart: night A, a short night S    *)
(* of two records, and night B.                                            *)
(***************************************************************************)
\* sample times: two in night A, one in night S, three in night B
MainTimes == <<0, 35, 500, 1000, 1240, 1245>>

MainHrInputs ==
    {[i \in 1..Len(MainTimes) |-> [time |-> MainTimes[i], bpm |-> b[i]]]
        : b \in [1..Len(MainTimes) -> BpmValues]}

Rec(stage, start, end) == [stage |-> stage, start |-> start, end |-> end]

NightA(x1, x2) ==
    <<Rec(x1, 0, 0), Rec(x2, 35, 35), Rec("rem", 50, 50), Rec("light", 50, 50),
      Rec("deep", 50, 50)>>

NightS == <<Rec("awake", 500, 500), Rec("rem", 505, 505)>>

NightB(y2) ==
    <<Rec("light", 1000, 1000), Rec(y2, 1240, 1245), Rec("light", 1250, 1250),
      Rec("awake", 1250, 1250), Rec("light", 1250, 1250)>>

\* night A with two records that last: 20 minutes, then 15 minutes
NightALong(x1, x2) ==
    <<Rec(x1, 0, 20), Rec(x2, 20, 35), Rec("rem", 50, 50), Rec("light", 50, 50),
      Rec("deep", 50, 50)>>

NightAChoices ==
    {NightA(x1, x2) : x1 \in {"light", "awake"}, x2 \in {"awake", "rem"}}
    \cup {NightALong("light", "awake"), NightALong("awake", "rem")}
NightBChoices == {NightB(y2) : y2 \in {"rem", "awake"}}

\* every selection of nights, in time order
MainSessionInputs ==
    {Flatten(<<a, sh, b>>) :
        a \in {<<>>} \cup {<<n>> : n \in NightAChoices},
        sh \in {<<>>, <<NightS>>},
        b \in {<<>>} \cup {<<n>> : n \in NightBChoices}}

\* the configs list of main
MainFlags ==
    {<<FALSE, FALSE, FALSE>>, <<FALSE, FALSE, TRUE>>, <<TRUE, FALSE, TRUE>>,
     <<FALSE, TRUE, TRUE>>, <<TRUE, TRUE, TRUE>>}

MainCfgs ==
    {[BaseCfg EXCEPT !.use_time_prior = f[1], !.use_transitions = f[2],
                     !.use_dynamic_thresh = f[3]] : f \in MainFlags}
    \cup {[BaseCfg EXCEPT !.variant = "hybrid", !.cv_threshold = 300]}

InitMain ==
    /\ cfg \in MainCfgs
    /\ hr_samples \in MainHrInputs
    /\ sessions \in MainSessionInputs
    /\ run_pc = IF cfg.variant = "adaptive" THEN "learn" ELSE "session"
    /\ si = 1
    /\ stream = <<>>
    /\ k = 1
    /\ recent_hrs = <<>>
    /\ rmssd_history = <<>>
    /\ consecutive_rem_signals = 0
    /\ consecutive_awake_signals = 0
    /\ prev_predicted = "nrem"
    /\ confusion = ZeroConfusion
    /\ log = <<>>
    /\ sleep_stages = <<>>
    /\ gap_hours = 4
    /\ seg_pc = "off"
    /\ seg_result = [raised |-> "none", sessions |-> <<>>]
    /\ workers = <<>>
    /\ fn_call = [fn |-> IF cfg.variant = "adaptive" THEN "learn_parameters"
                         ELSE "none"]
    /\ fn_ret = [done |-> FALSE]

\* params = learn_parameters(hr_samples, sessions)
LearnParameters ==
    /\ run_pc = "learn"
    /\ fn_ret' = [done |-> TRUE,
                  value |-> learn_parameters(hr_samples, sessions),
                  counts |-> learn_counts(hr_samples, sessions)]
    /\ cfg' = [cfg EXCEPT !.params = ParamsOf(learn_parameters(hr_samples, sessions))]
    /\ run_pc' = "session"
    /\ UNCHANGED <<hr_samples, sessions, si, stream, k, confusion, log>>
    /\ UNCHANGED stateVars
    /\ UNCHANGED segVars
    /\ UNCHANGED <<workers, fn_call>>

NextMain ==
    \/ LearnParameters
    \/ SkipSession
    \/ BeginSession
    \/ AdaptiveSample
    \/ HybridSample
    \/ EndSession
    \/ Finish

SpecMain == InitMain /\ [][NextMain]_vars

(***************************************************************************)
(* The classification of one session as a function of the session, the     *)
(* samples and the configuration: the loop body applied to each sample of  *)
(* the session in order, from the state a session starts from.             *)
(***************************************************************************)
\* one pass of the body of "for hr in stage_hrs"
sample_step(c, st, h, session_start) ==
    IF c.variant = "hybrid"
    THEN hybrid_sample(st, c.cv_threshold, 600, 400, h.bpm, h.time - session_start)
    ELSE adaptive_sample(st, c, h.bpm, h.time - session_start)

\* confusion[actual][predicted] += 1, and the label kept in order
Counted(acc, actual, predicted) ==
    [labels |-> Append(acc.labels, predicted),
     confusion |-> [acc.confusion EXCEPT ![actual][predicted] = @ + 1]]

RECURSIVE ClassifyFrom(_, _, _, _, _, _)
ClassifyFrom(c, st, strm, i, session_start, acc) ==
    IF i > Len(strm) THEN acc
    ELSE LET r == sample_step(c, st, strm[i], session_start)
         IN  ClassifyFrom(c, r.st, strm, i + 1, session_start,
                          Counted(acc, strm[i].actual, r.out.predicted))

\* the labels and the counts of one session classified on its own
classify_session(c, session, samples) ==
    ClassifyFrom(c, FreshState, SessionStream(session, samples), 1,
                 session[1].start, [labels |-> <<>>, confusion |-> ZeroConfusion])

\* the sessions the loops do not skip
LongSessions(ss) == SelectSeq(ss, LAMBDA x : Len(x) >= MIN_SESSION_RECORDS)

AddConfusion(c1, c2) == [a \in Stages3 |-> [p \in Stages3 |-> c1[a][p] + c2[a][p]]]

RECURSIVE SumConfusion(_, _, _, _)
\* the confusion matrix of sessions i.. of ss, each classified on its own
SumConfusion(c, ss, i, samples) ==
    IF i > Len(ss) THEN ZeroConfusion
    ELSE AddConfusion(classify_session(c, ss[i], samples).confusion,
                      SumConfusion(c, ss, i + 1, samples))

(***************************************************************************)
(* Claims about the segmenter (checked under SpecSeg)                      *)
(***************************************************************************)
\* 1-based index of the returned session that holds input position p,
\* counting positions through the sessions in order
RECURSIVE SessionIndexOf(_, _, _)
SessionIndexOf(ss, p, n) ==
    IF ss = <<>> THEN 0
    ELSE IF p <= Len(Head(ss)) THEN n
         ELSE SessionIndexOf(Tail(ss), p - Len(Head(ss)), n + 1)

HasInvertedRecord(stages) ==
    \E i \in 1..Len(stages) : stages[i].end < stages[i].start

\* C7: concatenating the sessions identify_sessions returns, in order, gives
\* back exactly the input list: no record dropped, duplicated or reordered.
C7_Partition ==
    seg_pc = "done" => Flatten(seg_result.sessions) = sleep_stages

C7_Witness ==
    /\ seg_pc = "done"
    /\ Len(seg_result.sessions) = 2
    /\ Len(sleep_stages) = 3
    /\ \E i \in 1..2 : Len(seg_result.sessions[i]) = 2

\* C8: two consecutive records land in different sessions if and only if the
\* later start is more than gap_hours after the earlier end; a gap of exactly
\* gap_hours, or a negative gap, keeps them together.
C8_SplitIffGapExceeds ==
    seg_pc = "done" =>
        \A i \in 1..(Len(sleep_stages) - 1) :
            (SessionIndexOf(seg_result.sessions, i, 1)
                 # SessionIndexOf(seg_result.sessions, i + 1, 1))
            <=> (sleep_stages[i + 1].start - sleep_stages[i].end > 240)

C8_Witness ==
    /\ seg_pc = "done"
    /\ Len(sleep_stages) = 3
    /\ sleep_stages[2].start - sleep_stages[1].end = 240
    /\ sleep_stages[3].start - sleep_stages[2].end < 0
    /\ Len(seg_result.sessions) = 1

\* C9: the result is the empty list exactly when the input is empty, and no
\* returned session is empty.
C9_EmptyOnlyOnEmpty ==
    seg_pc = "done" =>
        /\ (seg_result.sessions = <<>>) <=> (sleep_stages = <<>>)
        /\ \A i \in 1..Len(seg_result.sessions) : Len(seg_result.sessions[i]) >= 1

C9_Witness ==
    /\ seg_pc = "done"
    /\ sleep_stages = <<>>
    /\ seg_result.sessions = <<>>

LogIdx == 1..Len(log)

IsAdaptive == cfg.variant = "adaptive"

\* C1: run_adaptive_classifier never emits rem for a sample whose minutes
\* since session start is below 70, whatever the flags and parameters.
C1_NoEarlyRemAdaptive ==
    IsAdaptive =>
        \A i \in LogIdx : log[i].minutes < 70 => log[i].predicted # "rem"

\* C2: run_baseline, HybridClassifier.classify and classify_step never
\* return rem for a sample whose minutes is below 70, also when the previous
\* label is rem and when minutes does not grow from sample to sample.
C2_NoEarlyRemOthers ==
    cfg.variant \in {"baseline", "hybrid", "debug"} =>
        \A i \in LogIdx : log[i].minutes < 70 => log[i].predicted # "rem"

\* the loops of C3: the REM gate followed by no transition smoothing
Unsmoothed ==
    \/ IsAdaptive /\ ~cfg.use_transitions
    \/ cfg.variant = "two_stage_v2"

\* a sample qualifies: the awake gate does not fire, minutes >= 70 and
\* rem_score > 0.25
Qualifies(e) == ~e.raw_awake /\ e.minutes >= 70 /\ e.rem_score > 2500

\* samples i and i+1 of one session both qualify, the label before sample i
\* is nrem and the sample before i (if the session has one) does not qualify
FreshPair(i) ==
    /\ i + 1 <= Len(log)
    /\ log[i].session = log[i + 1].session
    /\ log[i].prev = "nrem"
    /\ Qualifies(log[i])
    /\ Qualifies(log[i + 1])
    /\ (i = 1 \/ log[i - 1].session # log[i].session \/ ~Qualifies(log[i - 1]))

\* C3: without smoothing, when the previous label is nrem and two
\* consecutive samples qualify (the one before them not qualifying), the
\* first is labelled nrem and the second rem.
C3_Debounce ==
    Unsmoothed =>
        \A i \in LogIdx :
            FreshPair(i) =>
                log[i].predicted = "nrem" /\ log[i + 1].predicted = "rem"

C3_Witness ==
    /\ Unsmoothed
    /\ \E i \in LogIdx :
          /\ FreshPair(i)
          /\ log[i].predicted = "nrem"
          /\ log[i + 1].predicted = "rem"

\* the loops of C4 with their table and floor
Smoothed ==
    \/ IsAdaptive /\ cfg.use_transitions
    \/ cfg.variant = "option_b"

SmootherTable ==
    IF IsAdaptive THEN cfg.params.transitions ELSE TRANSITION_PROBS

SmootherFloor == IF IsAdaptive THEN 120 ELSE 150

\* label is a most probable next state after prev
IsArgMax(prev, label) ==
    \A s \in Stages3 : SmootherTable[prev][s] <= SmootherTable[prev][label]

BelowFloor(e) == SmootherTable[e.prev][e.raw] < SmootherFloor

\* C4 as written: the override fires exactly when
\* transitionMatrix[prev][raw] is below the floor, and when it fires the
\* emitted label is the argmax over next states of transitionMatrix[prev].
C4_Original ==
    Smoothed =>
        \A i \in LogIdx :
            /\ log[i].fired <=> BelowFloor(log[i])
            /\ log[i].fired => IsArgMax(log[i].prev, log[i].predicted)

\* the hysteresis that runs after the smoother re-asserts rem
Reasserted(e) ==
    /\ e.prev = "rem"
    /\ e.smoothed = "nrem"
    /\ e.minutes >= 70
    /\ e.rem_score > 1500

\* C4: the override fires exactly when transitionMatrix[prev][raw] is below
\* the floor; when it fires the smoother's label is the argmax over next
\* states of transitionMatrix[prev], and the emitted label is that label
\* unless the REM hysteresis re-asserts rem (previous label rem, smoother's
\* label nrem, minutes >= 70, hysteresis score > 0.15), when it is rem.
C4_OverrideThenHysteresis ==
    Smoothed =>
        \A i \in LogIdx :
            /\ log[i].fired <=> BelowFloor(log[i])
            /\ log[i].fired =>
                  /\ IsArgMax(log[i].prev, log[i].smoothed)
                  /\ log[i].predicted =
                        IF Reasserted(log[i]) THEN "rem" ELSE log[i].smoothed

C4_Witness ==
    /\ Smoothed
    /\ \E i, j \in LogIdx :
          /\ log[i].fired /\ Reasserted(log[i])
          /\ log[j].fired /\ ~Reasserted(log[j])
          /\ log[j].predicted # log[j].raw

\* C5 as written: previous label rem, raw label nrem or awake and
\* remScore > 0.15 give the emitted label rem (run_adaptive_classifier and
\* HybridClassifier.classify).
C5_Original ==
    cfg.variant \in {"adaptive", "hybrid"} =>
        \A i \in LogIdx :
            (log[i].prev = "rem" /\ log[i].raw # "rem" /\ log[i].rem_score > 1500)
                => log[i].predicted = "rem"

\* C5: in HybridClassifier.classify, previous label rem, a raw label other
\* than rem and remScore > 0.15 give rem.  In run_adaptive_classifier the
\* hysteresis acts only on a label that is nrem after the gates and the
\* smoother, at minutes >= 70: then previous label rem and remScore > 0.15
\* give rem; any other label is emitted as the smoother left it.
C5_StickyRem ==
    /\ cfg.variant = "hybrid" =>
          \A i \in LogIdx :
              (log[i].prev = "rem" /\ log[i].raw # "rem" /\ log[i].rem_score > 1500)
                  => log[i].predicted = "rem"
    /\ IsAdaptive =>
          \A i \in LogIdx :
              log[i].predicted =
                  IF Reasserted(log[i]) THEN "rem" ELSE log[i].smoothed

C5_Witness ==
    /\ IsAdaptive
    /\ \E i \in LogIdx :
          /\ log[i].prev = "rem"
          /\ log[i].raw = "nrem"
          /\ ~log[i].fired
          /\ log[i].rem_score > 1500
          /\ log[i].predicted = "rem"

\* sessions the adaptive loop classifies, and the samples lying in them
ClassifiedSessions ==
    {j \in 1..Len(sessions) : Len(sessions[j]) >= MIN_SESSION_RECORDS}

SamplesOfClassified ==
    {i \in 1..Len(hr_samples) :
        \E j \in ClassifiedSessions : \E r \in 1..Len(sessions[j]) :
            /\ sessions[j][r].start <= hr_samples[i].time
            /\ hr_samples[i].time <= sessions[j][r].end}

ConfusionTotal ==
    SeqSum([n \in 1..9 |->
        confusion[StageOrder[((n - 1) \div 3) + 1]][StageOrder[((n - 1) % 3) + 1]]])

\* C6: the nine cells of the confusion matrix of run_adaptive_classifier
\* sum to the number of hr samples of the classified sessions: every sample
\* is counted once, a sample on the boundary shared by two records included.
C6_EachSampleOnce ==
    (IsAdaptive /\ run_pc = "done") =>
        ConfusionTotal = Cardinality(SamplesOfClassified)

\* C14: whenever a sample is emitted with label awake, the consecutive-REM
\* counter is 0 after that sample (run_adaptive_classifier, run_option_b).
C14_AwakeResetsRemCounter ==
    cfg.variant \in {"adaptive", "option_b"} =>
        \A i \in LogIdx : log[i].predicted = "awake" => log[i].crs = 0

(***************************************************************************)
(* Properties of the pure functions (specification SpecFn)                 *)
(***************************************************************************)
Returned(f) == fn_call.fn = f /\ fn_ret.done

\* the prior the threshold is derived from
PriorOfCall == get_learned_awake_prior(fn_call.priors, fn_call.minutes)

\* C15: with the dynamic threshold enabled get_dynamic_threshold returns
\* base * 0.85 for a prior above 0.25, base * 1.3 for a prior below 0.05 and
\* base otherwise, the priors 0.05 and 0.25 included; disabled, it returns
\* base.
C15_DynamicThreshold ==
    Returned("get_dynamic_threshold") =>
        fn_ret.value =
            IF ~fn_call.use_dynamic_thresh THEN fn_call.base_threshold
            ELSE IF PriorOfCall > 250 THEN (fn_call.base_threshold * 85) \div 100
            ELSE IF PriorOfCall < 50 THEN (fn_call.base_threshold * 13) \div 10
            ELSE fn_call.base_threshold

C15_Witness ==
    /\ Returned("get_dynamic_threshold")
    /\ fn_call.use_dynamic_thresh
    /\ PriorOfCall = 250
    /\ fn_ret.value = fn_call.base_threshold

\* C19: the CV is exactly 0.5 whenever the RMSSD history holds fewer than
\* 3 entries, whatever the entries are.
C19_CvDefaultBelowThree ==
    (Returned("cv_inline") \/ Returned("compute_cv")) =>
        (Len(fn_call.history) < 3 => fn_ret.value = 500)

C19_Witness ==
    /\ Returned("cv_inline")
    /\ Len(fn_call.history) = 2
    /\ SeqSum(fn_call.history) > 20
    /\ fn_call.history[1] # fn_call.history[2]
    /\ fn_ret.value = 500

\* population standard deviation over mean, in thousandths, of a history
\* whose mean is not zero
StdOverMean(h) ==
    (1000 * ISqrt(Len(h) * SumSq(h) - SeqSum(h) * SeqSum(h))) \div SeqSum(h)

\* C20: with at least 3 entries the CV is the default 0.5 exactly when the
\* mean of the history is below 0.1; otherwise, a mean of exactly 0.1
\* included, it is the population standard deviation over the mean.
C20_CvDefaultIffMeanBelow ==
    (Returned("cv_inline") \/ Returned("compute_cv")) =>
        (Len(fn_call.history) >= 3 =>
            fn_ret.value =
                IF SeqSum(fn_call.history) < 10 * Len(fn_call.history)
                THEN 500
                ELSE StdOverMean(fn_call.history))

(***************************************************************************)
(* Properties of the feature buffers (specification SpecBuf)               *)
(***************************************************************************)
\* the last min(Len(l), cap) entries of l, in order
Newest(l, cap) ==
    LET m == IF Len(l) < cap THEN Len(l) ELSE cap
    IN  [i \in 1..m |-> l[Len(l) - m + i]]

\* C13: after any number n of samples the recent-HR buffer holds the last
\* min(n, 20) bpm values in arrival order and the RMSSD history the last
\* min(n, 10) RMSSD values in order; neither exceeds its capacity.
C13_BoundedFifo ==
    run_pc = "features" =>
        /\ Len(recent_hrs) <= 20
        /\ Len(rmssd_history) <= 10
        /\ recent_hrs = [i \in 1..Len(Newest(log, 20)) |-> Newest(log, 20)[i].bpm]
        /\ rmssd_history = [i \in 1..Len(Newest(log, 10)) |-> Newest(log, 10)[i].rmssd]

C13_Witness ==
    /\ run_pc = "features"
    /\ Len(log) = 22
    /\ Len(recent_hrs) = 20
    /\ Len(rmssd_history) = 10
    /\ log[2].bpm # recent_hrs[1]
    /\ log[12].rmssd # rmssd_history[1]

(***************************************************************************)
(* A quiet night (specification SpecQuiet): one session whose heart-rate   *)
(* samples are all equal and five minutes apart from the start of the      *)
(* session, classified by run_baseline or by run_adaptive_classifier       *)
(* without transitions, with the base threshold 3.0.                       *)
(***************************************************************************)
QuietLen == 8

QuietTime(i) == 5 * (i - 1)

QuietBpm == {58, 60, 70}

QuietHrInputs ==
    {[i \in 1..QuietLen |-> [time |-> QuietTime(i), bpm |-> b]] : b \in QuietBpm}

\* the first record ends at sample w, the second holds the remaining samples
QuietSession(w) ==
    <<Rec("light", QuietTime(1), QuietTime(w)),
      Rec("rem", QuietTime(w + 1), QuietTime(QuietLen + 1)),
      Rec("awake", QuietTime(QuietLen + 2), QuietTime(QuietLen + 2)),
      Rec("deep", QuietTime(QuietLen + 2), QuietTime(QuietLen + 2)),
      Rec("light", QuietTime(QuietLen + 2), QuietTime(QuietLen + 2))>>

QuietSessionInputs == {<<QuietSession(w)>> : w \in 1..QuietLen}

QuietCfgs ==
    {[BaseCfg EXCEPT !.use_time_prior = utp, !.use_dynamic_thresh = udt,
                     !.params.awake_prior = pr]
        : utp \in BOOLEAN, udt \in BOOLEAN, pr \in PriorChoices}
    \cup {[BaseCfg EXCEPT !.variant = "baseline"]}

InitQuiet ==
    /\ cfg \in QuietCfgs
    /\ hr_samples \in QuietHrInputs
    /\ sessions \in QuietSessionInputs
    /\ run_pc = "session"
    /\ si = 1
    /\ stream = <<>>
    /\ k = 1
    /\ recent_hrs = <<>>
    /\ rmssd_history = <<>>
    /\ consecutive_rem_signals = 0
    /\ consecutive_awake_signals = 0
    /\ prev_predicted = "nrem"
    /\ confusion = ZeroConfusion
    /\ log = <<>>
    /\ sleep_stages = <<>>
    /\ gap_hours = 4
    /\ seg_pc = "off"
    /\ seg_result = [raised |-> "none", sessions |-> <<>>]
    /\ AuxIdle

NextQuiet ==
    \/ BeginSession
    \/ AdaptiveSample
    \/ BaselineSample
    \/ EndSession
    \/ Finish

SpecQuiet == InitQuiet /\ [][NextQuiet]_vars

(***************************************************************************)
(* HMMClassifier.learn_from_data (specification SpecHmm): the features of  *)
(* every session of at least five records are collected per stage, and a   *)
(* stage with enough of them gets learned emission parameters.  CV values  *)
(* are in thousandths, RMSSD values in hundredths.                         *)
(***************************************************************************)
\* "if len(hrs) > 15"
HMM_MAX_HRS == 15
\* "if len(feature_data[state]["cv"]) >= 5"
HMM_MIN_OBS == 5
\* the floors of the learned deviations: 0.05 for the CV, 0.5 for the RMSSD
CV_SIGMA_FLOOR == 50
RMSSD_SIGMA_FLOOR == 50

\* statistics.stdev: raises StatisticsError below two values
hmm_stdev(xs) ==
    IF Len(xs) < 2 THEN [raised |-> "StatisticsError", value |-> 0]
    ELSE [raised |-> "none",
          value |-> ISqrt(SpreadOf(xs) \div (Len(xs) * (Len(xs) - 1)))]

\* std_rmssd / mean_rmssd if mean_rmssd > 0.1 else 0.5
hmm_cv(hist) ==
    IF SeqSum(hist) > 10 * Len(hist)
    THEN (1000 * Len(hist) * hmm_stdev(hist).value) \div SeqSum(hist)
    ELSE 500

EmptyFeatures == [s \in Stages3 |-> [cv |-> <<>>, rmssd |-> <<>>]]

\* body of "for hr in stage_hrs" of learn_from_data
hmm_feature_sample(fs, h) ==
    LET hrs == PushBounded(fs.hrs, h.bpm, HMM_MAX_HRS)
        rmssd == rmssd_of(hrs)
        hist == IF Len(hrs) >= 3
                THEN PushBounded(fs.rmssd_history, rmssd, MAX_RMSSD_HISTORY)
                ELSE fs.rmssd_history
    IN  [hrs |-> hrs,
         rmssd_history |-> hist,
         feature_data |->
            IF Len(hrs) >= 3 /\ Len(hist) >= 3
            THEN [fs.feature_data EXCEPT
                    ![h.actual] = [cv |-> Append(@.cv, hmm_cv(hist)),
                                   rmssd |-> Append(@.rmssd, rmssd)]]
            ELSE fs.feature_data]

RECURSIVE HmmSamples(_, _, _)
HmmSamples(fs, strm, i) ==
    IF i > Len(strm) THEN fs
    ELSE HmmSamples(hmm_feature_sample(fs, strm[i]), strm, i + 1)

RECURSIVE HmmSessions(_, _, _, _)
\* "for session in sessions" of learn_from_data
HmmSessions(fd, ss, i, samples) ==
    IF i > Len(ss) THEN fd
    ELSE IF Len(ss[i]) < MIN_SESSION_RECORDS
         THEN HmmSessions(fd, ss, i + 1, samples)
         ELSE HmmSessions(
                HmmSamples([hrs |-> <<>>, rmssd_history |-> <<>>, feature_data |-> fd],
                           SessionStream(ss[i], samples), 1).feature_data,
                ss, i + 1, samples)

\* variant: one observation is enough for a stage to be learned
EnoughObservations_One(vals) == Len(vals) >= 1

\* len(feature_data[state]["cv"]) >= 5
EnoughObservations(vals) == Len(vals) >= HMM_MIN_OBS

\* the parameters of one stage after the loop "for state in STATES"
hmm_state_params(obs, cv_default, rmssd_default) ==
    IF EnoughObservations(obs.cv)
    THEN [raised |-> IF hmm_stdev(obs.cv).raised # "none"
                     THEN hmm_stdev(obs.cv).raised
                     ELSE hmm_stdev(obs.rmssd).raised,
          cv |-> [mu |-> SeqSum(obs.cv) \div Len(obs.cv),
                  sigma |-> Max2(CV_SIGMA_FLOOR, hmm_stdev(obs.cv).value)],
          rmssd |-> [mu |-> SeqSum(obs.rmssd) \div Len(obs.rmssd),
                     sigma |-> Max2(RMSSD_SIGMA_FLOOR, hmm_stdev(obs.rmssd).value)]]
    ELSE [raised |-> "none", cv |-> cv_default, rmssd |-> rmssd_default]

\* HMMClassifier().learn_from_data(hr_samples, sleep_stages): the exception
\* raised, if any, the features collected and the parameters afterwards
learn_from_data(samples, stages) ==
    LET fd == HmmSessions(EmptyFeatures, identify_sessions(stages, 4), 1, samples)
        ps == [s \in Stages3 |->
                hmm_state_params(fd[s], DefaultCvParams[s], DefaultRmssdParams[s])]
    IN  [raised |-> IF \E s \in Stages3 : ps[s].raised # "none"
                    THEN "StatisticsError" ELSE "none",
         feature_data |-> fd,
         cv_params |-> [s \in Stages3 |-> ps[s].cv],
         rmssd_params |-> [s \in Stages3 |-> ps[s].rmssd]]

\* one night of HmmLen samples five minutes apart
HmmLen == 10

HmmTime(i) == 5 * (i - 1)

HmmHrInputs ==
    {[i \in 1..HmmLen |-> [time |-> HmmTime(i), bpm |-> b[i]]]
        : b \in [1..HmmLen -> BpmValues]}

\* the first record holds the samples 1..w, the second the remaining ones
HmmNight(s1, s2, w) ==
    <<Rec(s1, HmmTime(1), HmmTime(w)), Rec(s2, HmmTime(w + 1), HmmTime(HmmLen + 1)),
      Rec("nrem", HmmTime(HmmLen + 2), HmmTime(HmmLen + 2)),
      Rec("awake", HmmTime(HmmLen + 2), HmmTime(HmmLen + 2)),
      Rec("nrem", HmmTime(HmmLen + 2), HmmTime(HmmLen + 2))>>

HmmStageInputs ==
    {HmmNight(p[1], p[2], w) :
        p \in {<<"nrem", "rem">>, <<"awake", "nrem">>}, w \in {4, 5, 7, HmmLen}}
    \cup {SubSeq(HmmNight("nrem", "rem", 4), 1, 4)}

InitHmm ==
    /\ hr_samples \in HmmHrInputs
    /\ sleep_stages \in HmmStageInputs
    /\ fn_call = [fn |-> "learn_from_data"]
    /\ fn_ret = [done |-> FALSE]
    /\ workers = <<>>
    /\ gap_hours = 4
    /\ seg_pc = "off"
    /\ seg_result = [raised |-> "none", sessions |-> <<>>]
    /\ cfg = [variant |-> "hmm"]
    /\ sessions = <<>>
    /\ run_pc = "off"
    /\ si = 0
    /\ stream = <<>>
    /\ k = 0
    /\ recent_hrs = <<>>
    /\ rmssd_history = <<>>
    /\ consecutive_rem_signals = 0
    /\ consecutive_awake_signals = 0
    /\ prev_predicted = "nrem"
    /\ confusion = <<>>
    /\ log = <<>>

\* hmm.learn_from_data(hr_samples, sleep_stages)
LearnFromData ==
    /\ fn_call.fn = "learn_from_data"
    /\ ~fn_ret.done
    /\ fn_ret' = [done |-> TRUE, value |-> learn_from_data(hr_samples, sleep_stages)]
    /\ UNCHANGED <<fn_call, workers>>
    /\ UNCHANGED segVars
    /\ UNCHANGED runVars

NextHmm == LearnFromData

SpecHmm == InitHmm /\ [][NextHmm]_vars

(***************************************************************************)
(* load_data and the start of main (specification SpecLoad): the records   *)
(* of the JSON file are parsed, filtered and sorted, the stage records are *)
(* cut into sessions, the parameters are learned and the sessions are      *)
(* classified.  The text of a timestamp is a record: whether               *)
(* datetime.fromisoformat accepts it, and the minute it then denotes.      *)
(***************************************************************************)
GoodTime(t) == [parses |-> TRUE, text |-> t]
BadTime(t) == [parses |-> FALSE, text |-> t]

\* parse_time: the datetime, or None when fromisoformat raises ValueError
parse_time(time_str) ==
    IF time_str.parses
    THEN [none |-> FALSE, t |-> time_str.text]
    ELSE [none |-> TRUE]

\* list.sort(key=...) is stable: x goes after every element that is not later
InsertByTime(s, x) ==
    LET n == Cardinality({i \in 1..Len(s) : s[i].time <= x.time})
    IN SubSeq(s, 1, n) \o <<x>> \o SubSeq(s, n + 1, Len(s))

RECURSIVE SortByTime(_)
SortByTime(s) ==
    IF s = <<>> THEN <<>>
    ELSE InsertByTime(SortByTime(SubSeq(s, 1, Len(s) - 1)), s[Len(s)])

InsertByStart(s, x) ==
    LET n == Cardinality({i \in 1..Len(s) : s[i].start <= x.start})
    IN SubSeq(s, 1, n) \o <<x>> \o SubSeq(s, n + 1, Len(s))

RECURSIVE SortByStart(_)
SortByStart(s) ==
    IF s = <<>> THEN <<>>
    ELSE InsertByStart(SortByStart(SubSeq(s, 1, Len(s) - 1)), s[Len(s)])

\* "if t: hr_samples.append({"bpm": sample["bpm"], "time": t})"
RECURSIVE LoadHrSamples(_)
LoadHrSamples(raw) ==
    IF raw = <<>> THEN <<>>
    ELSE LET sample == raw[Len(raw)]
             t == parse_time(sample.time)
             rest == LoadHrSamples(SubSeq(raw, 1, Len(raw) - 1))
         IN IF ~t.none
            THEN Append(rest, [bpm |-> sample.bpm, time |-> t.t])
            ELSE rest

\* "if start and end: sleep_stages.append(...)"
RECURSIVE LoadSleepStages(_)
LoadSleepStages(raw) ==
    IF raw = <<>> THEN <<>>
    ELSE LET stage == raw[Len(raw)]
             start == parse_time(stage.startTime)
             end == parse_time(stage.endTime)
             rest == LoadSleepStages(SubSeq(raw, 1, Len(raw) - 1))
         IN IF ~start.none /\ ~end.none
            THEN Append(rest, Rec(stage.stage, start.t, end.t))
            ELSE rest

\* adaptive_classifier.load_data
load_data(data) ==
    [hr_samples |-> SortByTime(LoadHrSamples(data.hrSamples)),
     sleep_stages |-> SortByStart(LoadSleepStages(data.sleepStages))]

\* stage_map.get(stage["stage"], "unknown") of hmm_classifier.load_data
stage_map(name) ==
    CASE name = "awake" -> "awake"
      [] name = "light" -> "nrem"
      [] name = "deep" -> "nrem"
      [] name = "rem" -> "rem"
      [] OTHER -> "unknown"

\* "if start and end and stage_3 != "unknown""
RECURSIVE HmmLoadSleepStages(_)
HmmLoadSleepStages(raw) ==
    IF raw = <<>> THEN <<>>
    ELSE LET stage == raw[Len(raw)]
             start == parse_time(stage.startTime)
             end == parse_time(stage.endTime)
             stage_3 == stage_map(stage.stage)
             rest == HmmLoadSleepStages(SubSeq(raw, 1, Len(raw) - 1))
         IN IF ~start.none /\ ~end.none /\ stage_3 # "unknown"
            THEN Append(rest, Rec(stage_3, start.t, end.t))
            ELSE rest

\* hmm_classifier.load_data
hmm_load_data(data) ==
    [hr_samples |-> SortByTime(LoadHrSamples(data.hrSamples)),
     sleep_stages |-> SortByStart(HmmLoadSleepStages(data.sleepStages))]

\* the records of the file: three heart-rate records out of time order, each
\* with a timestamp that parses or not and a bpm that is positive or not
LoadBpm == {0 - 5, 0, 60, 70}
LoadHrTimes == <<10, 0, 5>>

RawHr(i, ok, bpm) ==
    [time |-> IF ok THEN GoodTime(LoadHrTimes[i]) ELSE BadTime(LoadHrTimes[i]),
     bpm |-> bpm]

RawHrInputs ==
    {<<RawHr(1, o[1], b[1]), RawHr(2, o[2], b[2]), RawHr(3, o[3], b[3])>> :
        o \in [1..3 -> BOOLEAN], b \in [1..3 -> LoadBpm]}

RawStage(stage, start, end) ==
    [stage |-> stage, startTime |-> GoodTime(start), endTime |-> GoodTime(end)]

\* six stage records, the first two out of order
RawNight(last) ==
    <<RawStage("rem", 10, 10), RawStage("light", 0, 5), RawStage("awake", 15, 15),
      RawStage("deep", 16, 16), RawStage("light", 17, 17), RawStage(last, 18, 18)>>

\* the night, or its first five records, with at most one unparseable time
RawStageInputs(last) ==
    LET nights == {RawNight(last), SubSeq(RawNight(last), 1, 5)}
    IN nights
       \cup {[n EXCEPT ![j].startTime = BadTime(@.text)] :
                n \in nights, j \in 1..5}
       \cup {[n EXCEPT ![j].endTime = BadTime(@.text)] :
                n \in nights, j \in 1..5}

RawData(last) ==
    {[hrSamples |-> h, sleepStages |-> s] :
        h \in RawHrInputs, s \in RawStageInputs(last)}

InitLoad ==
    /\ fn_call \in {[fn |-> "load_data", data |-> d] : d \in RawData("light")}
                   \cup {[fn |-> "hmm_load_data", data |-> d] : d \in RawData("nap")}
    /\ fn_ret = [done |-> FALSE]
    /\ workers = <<>>
    /\ cfg = IF fn_call.fn = "load_data" THEN BaseCfg ELSE [variant |-> "hmm"]
    /\ hr_samples = <<>>
    /\ sleep_stages = <<>>
    /\ gap_hours = 4
    /\ seg_pc = "load"
    /\ seg_result = [raised |-> "none", sessions |-> <<>>]
    /\ sessions = <<>>
    /\ run_pc = "off"
    /\ si = 1
    /\ stream = <<>>
    /\ k = 1
    /\ recent_hrs = <<>>
    /\ rmssd_history = <<>>
    /\ consecutive_rem_signals = 0
    /\ consecutive_awake_signals = 0
    /\ prev_predicted = "nrem"
    /\ confusion = ZeroConfusion
    /\ log = <<>>

\* hr_samples, sleep_stages = load_data() of adaptive_classifier.main
LoadData ==
    /\ seg_pc = "load"
    /\ fn_call.fn = "load_data"
    /\ hr_samples' = load_data(fn_call.data).hr_samples
    /\ sleep_stages' = load_data(fn_call.data).sleep_stages
    /\ fn_ret' = [done |-> TRUE, value |-> load_data(fn_call.data)]
    /\ seg_pc' = "call"
    /\ UNCHANGED <<cfg, sessions, run_pc, si, stream, k, confusion, log>>
    /\ UNCHANGED stateVars
    /\ UNCHANGED <<gap_hours, seg_result, workers, fn_call>>

\* hr_samples, sleep_stages = load_data(json_path) of hmm_classifier
HmmLoadData ==
    /\ seg_pc = "load"
    /\ fn_call.fn = "hmm_load_data"
    /\ hr_samples' = hmm_load_data(fn_call.data).hr_samples
    /\ sleep_stages' = hmm_load_data(fn_call.data).sleep_stages
    /\ fn_ret' = [done |-> TRUE, value |-> hmm_load_data(fn_call.data)]
    /\ seg_pc' = "done"
    /\ UNCHANGED <<cfg, sessions, run_pc, si, stream, k, confusion, log>>
    /\ UNCHANGED stateVars
    /\ UNCHANGED <<gap_hours, seg_result, workers, fn_call>>

\* sessions = identify_sessions(sleep_stages) of main
MainIdentifySessions ==
    /\ seg_pc = "call"
    /\ run_pc = "off"
    /\ seg_result' = identify_sessions_call(sleep_stages, gap_hours)
    /\ sessions' = identify_sessions_call(sleep_stages, gap_hours).sessions
    /\ seg_pc' = "done"
    /\ run_pc' = "learn"
    /\ UNCHANGED <<cfg, hr_samples, si, stream, k, confusion, log>>
    /\ UNCHANGED stateVars
    /\ UNCHANGED <<sleep_stages, gap_hours>>
    /\ UNCHANGED auxVars

NextLoad ==
    \/ LoadData
    \/ HmmLoadData
    \/ MainIdentifySessions
    \/ LearnParameters
    \/ SkipSession
    \/ BeginSession
    \/ AdaptiveSample
    \/ EndSession
    \/ Finish

SpecLoad == InitLoad /\ [][NextLoad]_vars

(***************************************************************************)
(* EnhancedClassifierV2.classify (specification SpecEnh): the classifier   *)
(* is handed a feature dictionary and the minutes since the session began, *)
(* one call after another.  A feature value is a float: a number, in       *)
(* hundredths, or NaN, with which every comparison is false.  Priors and   *)
(* propensities are in thousandths, scores in ten-thousandths.             *)
(***************************************************************************)
Num(v) == [nan |-> FALSE, v |-> v]
NaN == [nan |-> TRUE, v |-> 0]

\* a < b on floats
FloatLt(a, b) == ~a.nan /\ ~b.nan /\ a.v < b.v

\* get_awake_prior of enhanced_classifier_v2.py, in thousandths
enhanced_get_awake_prior(minutes_since_start) ==
    IF minutes_since_start < 30 THEN 400
    ELSE IF minutes_since_start < 60 THEN 50
    ELSE IF minutes_since_start < 90 THEN 350
    ELSE IF minutes_since_start < 330 THEN 100
    ELSE IF minutes_since_start < 360 THEN 300
    ELSE Min2(650, 300 + (minutes_since_start - 360) * 3)

\* get_rem_propensity, in thousandths
get_rem_propensity(minutes_since_start) ==
    IF minutes_since_start < 70 THEN 20
    ELSE IF minutes_since_start < 90 THEN 100
    ELSE LET cycle == minutes_since_start \div 90
             base == Min2(350, 100 + cycle * 60)
         IN  \* position_in_cycle > 0.65
             IF (minutes_since_start % 90) * 100 > 65 * 90
             THEN base * 2
             ELSE base \div 2

\* features.get(key, 0)
FeatureGet(features, key) ==
    IF key \in DOMAIN features THEN features[key] ELSE Num(0)

\* the constructor's thresholds, in hundredths
ENH_MAX_DIFF_THRESHOLD == 350
ENH_HR_RANGE_THRESHOLD == 750
ENH_STD_HR_THRESHOLD == 200
\* "if mean_diff < 0.7"
ENH_MEAN_DIFF_CUT == 70

\* min(1.0, awake_signal) in thousandths: min keeps its first argument
\* unless the second compares less, so a NaN signal gives 1.0
CappedSignal(max_diff, thresh) ==
    IF max_diff.nan THEN 1000
    ELSE Min2(1000, (max_diff.v * 1000) \div thresh)

\* "if not features"
HasNoFeatures(features) == DOMAIN features = {}

\* classify(features, minutes_since_start) on the classifier state
\* [consecutive_awake, consecutive_rem, prev_stage]
classify(st, features, minutes_since_start) ==
    IF HasNoFeatures(features)
    THEN [st |-> st, label |-> st.prev_stage]
    ELSE
    LET awake_prior == enhanced_get_awake_prior(minutes_since_start)
        rem_propensity == get_rem_propensity(minutes_since_start)
        max_diff == FeatureGet(features, "max_diff")
        hr_range == FeatureGet(features, "hr_range")
        std_hr == FeatureGet(features, "std_hr")
        mean_diff == FeatureGet(features, "mean_diff")
        dynamic_max_diff_thresh ==
            IF awake_prior > 250 THEN (ENH_MAX_DIFF_THRESHOLD * 8) \div 10
            ELSE IF awake_prior < 50 THEN (ENH_MAX_DIFF_THRESHOLD * 13) \div 10
            ELSE ENH_MAX_DIFF_THRESHOLD
        awake_score ==
            6 * CappedSignal(max_diff, dynamic_max_diff_thresh) + 4 * awake_prior
        is_awake == awake_score > 5500
        consecutive_awake == IF is_awake THEN st.consecutive_awake + 1 ELSE 0
        rem_score ==
            (IF FloatLt(hr_range, Num(ENH_HR_RANGE_THRESHOLD)) THEN 3000 ELSE 0)
            + (IF FloatLt(std_hr, Num(ENH_STD_HR_THRESHOLD)) THEN 2000 ELSE 0)
            + 3 * rem_propensity
            + (IF FloatLt(mean_diff, Num(ENH_MEAN_DIFF_CUT)) THEN 1000 ELSE 0)
        consecutive_rem == IF rem_score > 4000 THEN st.consecutive_rem + 1 ELSE 0
    IN  IF consecutive_awake >= 1
        THEN [st |-> [consecutive_awake |-> consecutive_awake,
                      consecutive_rem |-> 0, prev_stage |-> "awake"],
              label |-> "awake"]
        ELSE IF minutes_since_start < 70
        THEN [st |-> [consecutive_awake |-> consecutive_awake,
                      consecutive_rem |-> st.consecutive_rem,
                      prev_stage |-> "nrem"],
              label |-> "nrem"]
        ELSE IF consecutive_rem >= 2
        THEN [st |-> [consecutive_awake |-> consecutive_awake,
                      consecutive_rem |-> consecutive_rem, prev_stage |-> "rem"],
              label |-> "rem"]
        ELSE IF st.prev_stage = "rem" /\ rem_score > 3000
        THEN [st |-> [consecutive_awake |-> consecutive_awake,
                      consecutive_rem |-> consecutive_rem, prev_stage |-> "rem"],
              label |-> "rem"]
        ELSE [st |-> [consecutive_awake |-> consecutive_awake,
                      consecutive_rem |-> consecutive_rem, prev_stage |-> "nrem"],
              label |-> "nrem"]

\* the feature dictionaries handed to classify
Features(max_diff, hr_range, std_hr, mean_diff) ==
    [key \in {"max_diff", "hr_range", "std_hr", "mean_diff"} |->
        CASE key = "max_diff" -> max_diff
          [] key = "hr_range" -> hr_range
          [] key = "std_hr" -> std_hr
          [] key = "mean_diff" -> mean_diff]

NoFeatures == [key \in {} |-> NaN]

FeatureChoices ==
    {NoFeatures,
     Features(Num(100), Num(500), Num(150), Num(50)),
     Features(Num(100), Num(500), Num(300), Num(100)),
     Features(Num(200), Num(1000), Num(300), Num(100)),
     Features(Num(500), Num(1000), Num(300), Num(100)),
     Features(NaN, Num(500), Num(150), Num(50)),
     Features(Num(100), NaN, NaN, NaN),
     Features(NaN, NaN, NaN, NaN),
     [key \in {"hr_range"} |-> Num(500)]}

EnhMinutes == {10, 100, 150}
MaxCalls == 3

InitEnh ==
    /\ cfg = [variant |-> "enhanced_v2"]
    /\ consecutive_awake_signals = 0
    /\ consecutive_rem_signals = 0
    /\ prev_predicted = "awake"
    /\ k = 0
    /\ log = <<>>
    /\ hr_samples = <<>>
    /\ sessions = <<>>
    /\ run_pc = "off"
    /\ si = 0
    /\ stream = <<>>
    /\ recent_hrs = <<>>
    /\ rmssd_history = <<>>
    /\ confusion = <<>>
    /\ sleep_stages = <<>>
    /\ gap_hours = 4
    /\ seg_pc = "off"
    /\ seg_result = [raised |-> "none", sessions |-> <<>>]
    /\ AuxIdle

\* predicted = classifier.classify(features, minutes)
Classify ==
    /\ cfg.variant = "enhanced_v2"
    /\ k < MaxCalls
    /\ \E features \in FeatureChoices, minutes \in EnhMinutes :
        LET before == [consecutive_awake |-> consecutive_awake_signals,
                       consecutive_rem |-> consecutive_rem_signals,
                       prev_stage |-> prev_predicted]
            r == classify(before, features, minutes)
        IN  /\ consecutive_awake_signals' = r.st.consecutive_awake
            /\ consecutive_rem_signals' = r.st.consecutive_rem
            /\ prev_predicted' = r.st.prev_stage
            /\ log' = Append(log, [features |-> features, minutes |-> minutes,
                                   before |-> before, after |-> r.st,
                                   label |-> r.label])
    /\ k' = k + 1
    /\ UNCHANGED <<cfg, hr_samples, sessions, run_pc, si, stream, recent_hrs,
                   rmssd_history, confusion>>
    /\ UNCHANGED segVars
    /\ UNCHANGED auxVars

NextEnh == Classify

SpecEnh == InitEnh /\ [][NextEnh]_vars

(***************************************************************************)
(* two_stage_v2.run_classifier over two nights (specification SpecTwo):    *)
(* seven samples, four in the first night and three in the second, with a  *)
(* short night between them that the run skips.                            *)
(***************************************************************************)
TwoTimes == <<0, 5, 10, 15, 1000, 1005, 1010>>

TwoHrInputs ==
    {[i \in 1..Len(TwoTimes) |-> [time |-> TwoTimes[i], bpm |-> b[i]]]
        : b \in [1..Len(TwoTimes) -> {60, 70}]}

TwoNight(stage, start, end) ==
    <<Rec(stage, start, end), Rec("rem", end + 5, end + 5),
      Rec("light", end + 5, end + 5), Rec("deep", end + 5, end + 5),
      Rec("light", end + 5, end + 5)>>

TwoSessionInputs ==
    {<<TwoNight(x, 0, 15), NightS, TwoNight(y, 1000, 1010)>> :
        x \in {"light", "awake"}, y \in {"light", "awake"}}

TwoCfgs ==
    {[BaseCfg EXCEPT !.variant = "two_stage_v2", !.awake_thresh = th,
                     !.awake_consec = ac]
        : th \in {3000, 4000}, ac \in {1, 2, 3}}

InitTwo ==
    /\ cfg \in TwoCfgs
    /\ hr_samples \in TwoHrInputs
    /\ sessions \in TwoSessionInputs
    /\ run_pc = "session"
    /\ si = 1
    /\ stream = <<>>
    /\ k = 1
    /\ recent_hrs = <<>>
    /\ rmssd_history = <<>>
    /\ consecutive_rem_signals = 0
    /\ consecutive_awake_signals = 0
    /\ prev_predicted = "nrem"
    /\ confusion = ZeroConfusion
    /\ log = <<>>
    /\ sleep_stages = <<>>
    /\ gap_hours = 4
    /\ seg_pc = "off"
    /\ seg_result = [raised |-> "none", sessions |-> <<>>]
    /\ AuxIdle

NextTwo ==
    \/ SkipSession
    \/ BeginSession
    \/ TwoStageSample
    \/ EndSession
    \/ Finish

SpecTwo == InitTwo /\ [][NextTwo]_vars

(***************************************************************************)
(* Sessions classified side by side (specification SpecPar): one worker    *)
(* per session, each with its own classifier state, label list and         *)
(* confusion matrix; the workers take their per-sample steps in any        *)
(* interleaving, and the matrices are added up when all have finished.     *)
(* The parameters are learned from the same sessions, as in main.          *)
(***************************************************************************)
\* three samples in each of two nights
ParTimes == <<0, 240, 245, 1000, 1240, 1245>>

ParHrInputs ==
    {[i \in 1..Len(ParTimes) |-> [time |-> ParTimes[i], bpm |-> b[i]]]
        : b \in [1..Len(ParTimes) -> BpmValues]}

ParNight(base, x) ==
    <<Rec("light", base, base), Rec(x, base + 240, base + 245),
      Rec("light", base + 250, base + 250), Rec("awake", base + 250, base + 250),
      Rec("light", base + 250, base + 250)>>

ParSessionInputs ==
    {<<ParNight(0, x), ParNight(1000, y)>> : x \in {"rem", "awake"}, y \in {"rem", "awake"}}

\* variant: every worker reads the classifier state of worker 1
WorkerState_Shared(j) == workers[1].st

\* the classifier state of worker j
WorkerState(j) == workers[j].st

WorkerStream(j) == SessionStream(sessions[j], hr_samples)

InitPar ==
    /\ hr_samples \in ParHrInputs
    /\ sessions \in ParSessionInputs
    /\ cfg \in {[c EXCEPT !.params =
                    IF c.variant = "adaptive"
                    THEN ParamsOf(learn_parameters(hr_samples, sessions))
                    ELSE @] : c \in MainCfgs}
    /\ workers = [j \in 1..Len(sessions) |->
                    [st |-> FreshState, k |-> 1, labels |-> <<>>,
                     confusion |-> ZeroConfusion]]
    /\ run_pc = "parallel"
    /\ si = 1
    /\ stream = <<>>
    /\ k = 1
    /\ recent_hrs = <<>>
    /\ rmssd_history = <<>>
    /\ consecutive_rem_signals = 0
    /\ consecutive_awake_signals = 0
    /\ prev_predicted = "nrem"
    /\ confusion = ZeroConfusion
    /\ log = <<>>
    /\ sleep_stages = <<>>
    /\ gap_hours = 4
    /\ seg_pc = "off"
    /\ seg_result = [raised |-> "none", sessions |-> <<>>]
    /\ fn_call = [fn |-> "none"]
    /\ fn_ret = [done |-> FALSE]

\* worker j classifies the next sample of its session
WorkerStep(j) ==
    /\ run_pc = "parallel"
    /\ workers[j].k <= Len(WorkerStream(j))
    /\ LET h == WorkerStream(j)[workers[j].k]
           r == sample_step(cfg, WorkerState(j), h, sessions[j][1].start)
           acc == Counted(workers[j], h.actual, r.out.predicted)
       IN  /\ workers' = [workers EXCEPT ![j] =
                            [st |-> r.st, k |-> @.k + 1, labels |-> acc.labels,
                             confusion |-> acc.confusion]]
           /\ log' = Append(log, r.out @@ [session |-> j, actual |-> h.actual,
                                           time |-> h.time])
    /\ UNCHANGED <<run_pc, si, stream, k, confusion, fn_call, fn_ret>>
    /\ UNCHANGED stateVars
    /\ UNCHANGED inputVars
    /\ UNCHANGED segVars

RECURSIVE SumWorkers(_)
SumWorkers(j) ==
    IF j > Len(workers) THEN ZeroConfusion
    ELSE AddConfusion(workers[j].confusion, SumWorkers(j + 1))

\* every worker has finished: the matrices are added up
Collect ==
    /\ run_pc = "parallel"
    /\ \A j \in 1..Len(workers) : workers[j].k > Len(WorkerStream(j))
    /\ confusion' = SumWorkers(1)
    /\ run_pc' = "done"
    /\ UNCHANGED <<si, stream, k, log>>
    /\ UNCHANGED stateVars
    /\ UNCHANGED inputVars
    /\ UNCHANGED segVars
    /\ UNCHANGED auxVars

NextPar ==
    \/ \E j \in 1..Len(workers) : WorkerStep(j)
    \/ Collect

SpecPar == InitPar /\ [][NextPar]_vars

(***************************************************************************)
(* Claims about learn_parameters and main (specification SpecMain).        *)
(***************************************************************************)
Learned == fn_ret.done /\ fn_call.fn = "learn_parameters"

\* learn_parameters has just returned to main (its result is kept unchanged
\* in fn_ret for the rest of the run)
JustLearned == Learned /\ run_pc = "session" /\ si = 1

\* the number of transitions counted out of source state f
ObservedFrom(f) ==
    fn_ret.counts.transitions[f]["awake"] + fn_ret.counts.transitions[f]["nrem"]
        + fn_ret.counts.transitions[f]["rem"]

\* the entries of row f add up to exactly 1
RowSumsToOne(row) ==
    /\ \A t \in Stages3 : row[t].den = row["awake"].den
    /\ row["awake"].num + row["nrem"].num + row["rem"].num = row["awake"].den

\* C16: in the output of learn_parameters a source state with at least one
\* observed transition has a row of probabilities summing to 1, and a source
\* state with none has the uniform row of 1/3 each.
C16_TransitionRows ==
    Learned =>
        \A f \in Stages3 :
            LET row == fn_ret.value.transitions[f]
            IN  /\ ObservedFrom(f) > 0 => RowSumsToOne(row)
                /\ ObservedFrom(f) = 0 => \A t \in Stages3 : 3 * row[t].num = row[t].den

\* the minutes of record rec that fall into the 30-minute bin b of a session
\* that starts at session_start
MinutesInBin(rec, b, session_start) ==
    Max2(0, Min2(rec.end - session_start, 30 * (b + 1))
            - Max2(rec.start - session_start, 30 * b))

RECURSIVE DurationInBin(_, _, _, _)
\* the minutes in bin b of the records whose stage is in stages, over the
\* records j.. of session i
DurationInBin(stages, b, i, j) ==
    IF j > Len(sessions[i]) THEN 0
    ELSE (IF normalize_stage(sessions[i][j].stage) \in stages
          THEN MinutesInBin(sessions[i][j], b, sessions[i][1].start) ELSE 0)
         + DurationInBin(stages, b, i, j + 1)

RECURSIVE BinDuration(_, _, _)
\* the same over the sessions i.. of at least five records
BinDuration(stages, b, i) ==
    IF i > Len(sessions) THEN 0
    ELSE (IF Len(sessions[i]) >= MIN_SESSION_RECORDS
          THEN DurationInBin(stages, b, i, 1) ELSE 0)
         + BinDuration(stages, b, i + 1)

\* C23: for every 30-minute bin with data the learned awake prior is the
\* awake duration in the bin divided by the total duration in the bin, and
\* lies in [0, 1].
C23_PriorIsDurationRatio ==
    Learned =>
        \A b \in DOMAIN fn_ret.counts.time_bins :
            LET bin == fn_ret.counts.time_bins[b]
            IN  /\ 0 <= fn_ret.value.awake_prior[b]
                /\ fn_ret.value.awake_prior[b] <= 1000
                /\ BinDuration(Stages3, b, 1) > 0 =>
                        bin.awake * BinDuration(Stages3, b, 1)
                            = BinDuration({"awake"}, b, 1) * bin.total

\* the orders in which a list of n sessions can be handed to learn_parameters
Perms(n) == {p \in [1..n -> 1..n] : \A i, j \in 1..n : p[i] = p[j] => i = j}

Permuted(ss, p) == [i \in 1..Len(ss) |-> ss[p[i]]]

\* the accumulators of learn_parameters run on session i alone
Alone(i) == learn_counts(hr_samples, <<sessions[i]>>)

RECURSIVE SumOverSessions(_, _, _, _)
\* the counts of bin b (kind "bin") or out of source state b (kind "trans")
\* under key, added over the sessions i..Len(sessions) each processed alone
SumOverSessions(kind, b, key, i) ==
    IF i > Len(sessions) THEN 0
    ELSE (IF kind = "trans" THEN Alone(i).transitions[b][key]
          ELSE IF b \in DOMAIN Alone(i).time_bins THEN Alone(i).time_bins[b][key]
          ELSE 0)
         + SumOverSessions(kind, b, key, i + 1)

BinsSeenAlone == UNION {DOMAIN Alone(i).time_bins : i \in 1..Len(sessions)}

\* C17: learn_parameters returns the same awake priors, transition matrix and
\* thresholds for every order of the sessions, and its per-bin and
\* per-transition counts are the sums of the counts of each session alone.
C17_OrderIndependent ==
    JustLearned =>
        /\ \A p \in Perms(Len(sessions)) :
                learn_parameters(hr_samples, Permuted(sessions, p)) = fn_ret.value
        /\ \A f \in Stages3 : \A t \in Stages3 :
                fn_ret.counts.transitions[f][t] = SumOverSessions("trans", f, t, 1)
        /\ DOMAIN fn_ret.counts.time_bins = BinsSeenAlone
        /\ \A b \in BinsSeenAlone : \A key \in DOMAIN ZeroBin :
                fn_ret.counts.time_bins[b][key] = SumOverSessions("bin", b, key, 1)

\* three sessions were learned from in their order, two of them long enough
\* and both with a sample in the first half hour
C17_Witness ==
    /\ JustLearned
    /\ Len(sessions) = 3
    /\ fn_ret.counts.time_bins[0].total = 2
    /\ Alone(1).transitions # Alone(3).transitions
    /\ ObservedFrom("nrem") >= 4

\* the consecutive records (j, j + 1) of session i whose stages are f then t
PairsWithin(i, f, t) ==
    {j \in 1..(Len(sessions[i]) - 1) :
        /\ normalize_stage(sessions[i][j].stage) = f
        /\ normalize_stage(sessions[i][j + 1].stage) = t}

RECURSIVE PairsInLong(_, _, _)
\* such pairs counted over the sessions i.. of at least five records
PairsInLong(i, f, t) ==
    IF i > Len(sessions) THEN 0
    ELSE (IF Len(sessions[i]) >= MIN_SESSION_RECORDS
          THEN Cardinality(PairsWithin(i, f, t)) ELSE 0)
         + PairsInLong(i + 1, f, t)

\* the learned parameters with and without the sessions below five records
C18_LearnIgnoresShort ==
    JustLearned =>
        /\ fn_ret.value = learn_parameters(hr_samples, LongSessions(sessions))
        /\ \A f \in Stages3 : \A t \in Stages3 :
                fn_ret.counts.transitions[f][t] = PairsInLong(1, f, t)

\* the confusion matrix with and without the sessions below five records
C18_RunIgnoresShort ==
    (run_pc = "done" /\ cfg.variant = "adaptive") =>
        confusion =
            SumConfusion(
                [cfg EXCEPT !.params =
                    ParamsOf(learn_parameters(hr_samples, LongSessions(sessions)))],
                LongSessions(sessions), 1, hr_samples)

\* C18: a session of fewer than 5 records changes neither the output of
\* learn_parameters nor the confusion matrix of run_adaptive_classifier, and
\* transitions are counted only between consecutive records of one session
\* of at least 5 records.
C18_ShortSessionExcluded == C18_LearnIgnoresShort /\ C18_RunIgnoresShort

\* a run over a short session that holds a sample, between two long ones,
\* has finished
C18_Witness ==
    /\ run_pc = "done"
    /\ cfg.variant = "adaptive"
    /\ Learned
    /\ Len(sessions) = 3
    /\ Len(sessions[2]) < MIN_SESSION_RECORDS
    /\ Len(SessionStream(sessions[2], hr_samples)) = 1
    /\ Len(log) = Len(hr_samples) - 1

(***************************************************************************)
(* Claims about the sessions of one run (specification SpecMain).          *)
(***************************************************************************)
\* the samples of hr_samples that fall into a record of session i
OwnSamples(i) ==
    SelectSeq(hr_samples,
              LAMBDA h : \E j \in 1..Len(sessions[i]) :
                            /\ sessions[i][j].start <= h.time
                            /\ h.time <= sessions[i][j].end)

\* the labels the run emitted for session i, in order
LabelsOf(i) ==
    LET own == SelectSeq(log, LAMBDA e : e.session = i)
    IN  [n \in 1..Len(own) |-> own[n].predicted]

\* the first sample of a session is about to be classified
AtFirstSample == run_pc = "sample" /\ k = 1

C11_ResetAtFirstSample ==
    AtFirstSample =>
        /\ recent_hrs = <<>>
        /\ rmssd_history = <<>>
        /\ consecutive_rem_signals = 0
        /\ consecutive_awake_signals = 0
        /\ prev_predicted = "nrem"

C11_LabelsFromOwnSamples ==
    run_pc = "done" =>
        \A i \in 1..Len(sessions) :
            LabelsOf(i) =
                IF Len(sessions[i]) >= MIN_SESSION_RECORDS
                THEN classify_session(cfg, sessions[i], OwnSamples(i)).labels
                ELSE <<>>

\* C11: at the first sample of every classified session the buffers are
\* empty, both counters are 0 and the previous label is nrem, and the labels
\* of a session are those of the session classified alone on its own samples
\* with the learned parameters.
C11_ResetPerSession == C11_ResetAtFirstSample /\ C11_LabelsFromOwnSamples

\* a later session starts after an earlier one left a filled buffer and a
\* label other than nrem
C11_Witness ==
    /\ AtFirstSample
    /\ si > 1
    /\ \E n \in LogIdx :
            /\ n = Len(log)
            /\ log[n].session < si
            /\ log[n].predicted # "nrem"

RECURSIVE SumSqSucc(_)
\* the sum of the squared successive differences of a buffer
SumSqSucc(hrs) ==
    IF Len(hrs) < 2 THEN 0
    ELSE (hrs[2] - hrs[1]) * (hrs[2] - hrs[1]) + SumSqSucc(Tail(hrs))

\* value, in hundredths, is the root of num / den cut to the hundredth
IsRootOf(value, num, den) ==
    /\ value >= 0
    /\ value * value * den <= 10000 * num
    /\ 10000 * num < (value + 1) * (value + 1) * den

\* C21: RMSSD is the sentinel 10.0 for a buffer of fewer than 2 values and
\* otherwise the square root of the mean of the squared successive
\* differences; it is 0 for 2 or more identical values.
C21_Rmssd ==
    Returned("compute_rmssd") =>
        LET hrs == fn_call.hrs
        IN  /\ Len(hrs) < 2 => fn_ret.value = 1000
            /\ Len(hrs) >= 2 => IsRootOf(fn_ret.value, SumSqSucc(hrs), Len(hrs) - 1)
            /\ (Len(hrs) >= 2 /\ \A i \in 1..Len(hrs) : hrs[i] = hrs[1])
                    => fn_ret.value = 0

\* the RMSSD of three values with two different steps was computed
C21_Witness ==
    /\ Returned("compute_rmssd")
    /\ fn_call.hrs = <<60, 70, 58>>
    /\ fn_ret.value = 1104

\* v is the value of xs with at most num/den of the observations below it
\* and more than num/den of them at or below it
IsPercentile(v, xs, num, den) ==
    /\ v \in Range(xs)
    /\ den * Cardinality({i \in 1..Len(xs) : xs[i] < v}) <= num * Len(xs)
    /\ den * Cardinality({i \in 1..Len(xs) : xs[i] <= v}) > num * Len(xs)

AwakeObs == fn_call.diffs["awake"]
SleepObs == fn_call.diffs["nrem"] \o fn_call.diffs["rem"]

\* the threshold is max(sleepMean + sleepStdDev, (P75 + P25) / 2), with the
\* standard deviation of a single observation taken as single
ThresholdIsMax(single) ==
    \E p75 \in Range(SleepObs) : \E p25 \in Range(AwakeObs) :
        LET sd == IF Len(SleepObs) > 1 THEN SampleStdev(SleepObs) ELSE single
        IN  /\ IsPercentile(p75, SleepObs, 3, 4)
            /\ IsPercentile(p25, AwakeObs, 1, 4)
            /\ fn_ret.value = Max2(MeanOf(SleepObs) + sd, (p75 + p25) \div 2)
            /\ fn_ret.value >= MeanOf(SleepObs) + sd

\* C24 as stated: with awake and sleep observations the learned threshold is
\* max(sleepMean + sleepStdDev, (P75 of sleep + P25 of awake) / 2), the
\* deviation of one observation being 0; with either set empty it is 3.0.
C24_Original ==
    Returned("learned_threshold") =>
        IF AwakeObs # <<>> /\ SleepObs # <<>>
        THEN ThresholdIsMax(0)
        ELSE fn_ret.value = 3000

\* C24, amended: the same, where sleepStdDev is the sample standard deviation
\* of two or more sleep observations and the fixed 1.0 for a single one.
C24_LearnedThreshold ==
    Returned("learned_threshold") =>
        IF AwakeObs # <<>> /\ SleepObs # <<>>
        THEN ThresholdIsMax(1000)
        ELSE fn_ret.value = 3000

\* a single sleep observation: the floor mean + 1.0 decides the threshold
C24_Witness ==
    /\ Returned("learned_threshold")
    /\ SleepObs = <<3000>>
    /\ AwakeObs = <<0, 3000, 3000, 10000>>
    /\ fn_ret.value = 4000

RECURSIVE PathScore(_, _, _)
\* the total log-score of the state sequence seq from position t on:
\* initial log-probability, transition log-probabilities, emissions
PathScore(seq, observations, t) ==
    IF t > Len(seq) THEN 0
    ELSE (IF t = 1 THEN LogInitial[seq[1]] ELSE LogTransition[seq[t - 1]][seq[t]])
         + emission_log(seq[t], observations[t])
         + PathScore(seq, observations, t + 1)

\* C25: viterbi returns, for a non-empty observation sequence, a state
\* sequence of the same length whose total log-score is maximal among all
\* state sequences of that length, and the empty list for an empty one.
C25_ViterbiIsOptimal ==
    Returned("viterbi") =>
        LET obs == fn_call.observations
        IN  /\ Len(fn_ret.value) = Len(obs)
            /\ \A seq \in [1..Len(obs) -> Stages3] :
                    PathScore(seq, obs, 1) <= PathScore(fn_ret.value, obs, 1)

\* the best path of a longest sequence visits all three states, and is not
\* the sequence of the states that fit each observation best
C25_Witness ==
    /\ Returned("viterbi")
    /\ Len(fn_call.observations) = MaxT
    /\ Range(fn_ret.value) = Stages3
    /\ \E t \in 1..MaxT :
            fn_ret.value[t] #
                ArgMaxNext([s \in Stages3 |-> emission_log(s, fn_call.observations[t])])

(***************************************************************************)
(* Claims about the quiet night (specification SpecQuiet).                 *)
(***************************************************************************)
\* C22: a session of 8 equal heart-rate samples, 5 minutes apart from
\* session time 0, classified with the base threshold 3.0 and without
\* transition smoothing, gets the label nrem for every sample.
C22_QuietNightIsNrem ==
    /\ \A n \in LogIdx : log[n].predicted = "nrem"
    /\ run_pc = "done" => Len(log) = QuietLen

\* the run has finished; the CV was the default for two samples and was
\* computed from the third sample on
C22_Witness ==
    /\ run_pc = "done"
    /\ Len(log) = QuietLen
    /\ log[2].cv = 500
    /\ log[3].cv # 500
    /\ log[QuietLen].minutes = 5 * (QuietLen - 1)

(***************************************************************************)
(* Claims about HMMClassifier.learn_from_data (specification SpecHmm).     *)
(***************************************************************************)
\* sd is the sample standard deviation of xs, cut to the grid
IsSampleStdev(sd, xs) ==
    LET n == Len(xs)
    IN  /\ sd >= 0
        /\ sd * sd * n * (n - 1) <= SpreadOf(xs)
        /\ SpreadOf(xs) < (sd + 1) * (sd + 1) * n * (n - 1)

\* p holds the mean of xs and the standard deviation of xs, floored
LearnedFrom(p, xs, floor) ==
    /\ p.mu * Len(xs) <= SeqSum(xs)
    /\ SeqSum(xs) < (p.mu + 1) * Len(xs)
    /\ IF SpreadOf(xs) < (floor + 1) * (floor + 1) * Len(xs) * (Len(xs) - 1)
       THEN p.sigma = floor
       ELSE IsSampleStdev(p.sigma, xs)

HmmLearned == fn_call.fn = "learn_from_data" /\ fn_ret.done

\* C26: after learn_from_data a stage with fewer than 5 feature
\* observations keeps the constructor's CV and RMSSD parameters, a stage
\* with 5 or more gets the sample mean and a standard deviation floored at
\* 0.05 (CV) and 0.5 (RMSSD), and no error is raised.
C26_FallbackBelowFive ==
    HmmLearned =>
        /\ fn_ret.value.raised = "none"
        /\ \A s \in Stages3 :
                LET obs == fn_ret.value.feature_data[s]
                IN  IF Len(obs.cv) < 5
                    THEN /\ fn_ret.value.cv_params[s] = DefaultCvParams[s]
                         /\ fn_ret.value.rmssd_params[s] = DefaultRmssdParams[s]
                    ELSE /\ LearnedFrom(fn_ret.value.cv_params[s], obs.cv, 50)
                         /\ LearnedFrom(fn_ret.value.rmssd_params[s], obs.rmssd, 50)

\* one stage has a single observation and keeps its defaults while another
\* has five and is learned, with a deviation above the floor
C26_Witness ==
    /\ HmmLearned
    /\ \E s \in Stages3 : Len(fn_ret.value.feature_data[s].cv) = 1
    /\ \E s \in Stages3 :
            /\ Len(fn_ret.value.feature_data[s].cv) = 5
            /\ fn_ret.value.rmssd_params[s].sigma > 50
            /\ fn_ret.value.cv_params[s] # DefaultCvParams[s]
(***************************************************************************)
(* Claims about load_data (specification SpecLoad)                         *)
(***************************************************************************)
Loaded == fn_call.fn \in {"load_data", "hmm_load_data"} /\ seg_pc # "load"

RawHrWellFormed(r) == r.time.parses /\ r.bpm > 0
RawStageWellFormed(r) == r.startTime.parses /\ r.endTime.parses

\* C27: a heart-rate record with an unparseable timestamp or a zero or
\* negative bpm, and a stage record with an unparseable start or end time,
\* is dropped by load_data and never reaches the classifier's buffer, while
\* every well-formed record is loaded.
C27_MalformedDropped ==
    Loaded =>
        LET rawHr == Range(fn_call.data.hrSamples)
            rawSt == Range(fn_call.data.sleepStages)
        IN /\ \A r \in rawHr :
                RawHrWellFormed(r)
                    <=> [bpm |-> r.bpm, time |-> r.time.text] \in Range(hr_samples)
           /\ \A r \in rawSt :
                ~RawStageWellFormed(r) =>
                    \A s \in Range(sleep_stages) :
                        <<s.start, s.end>> # <<r.startTime.text, r.endTime.text>>
           /\ \A r \in rawSt :
                (RawStageWellFormed(r) /\ stage_map(r.stage) # "unknown") =>
                    \E s \in Range(sleep_stages) :
                        /\ <<s.start, s.end>> = <<r.startTime.text, r.endTime.text>>
                        /\ s.stage \in {r.stage, stage_map(r.stage)}
           /\ \A i \in 1..Len(recent_hrs) : recent_hrs[i] > 0
(***************************************************************************)
(* Claims about ties in the transition smoother (specification SpecMain)   *)
(***************************************************************************)
\* the next states that share the highest probability of a row
TiedForBest(row) == {s \in Stages3 : \A t \in Stages3 : row[t] <= row[s]}

\* the first state of a set in the order awake, nrem, rem
FirstInPriority(ss) ==
    StageOrder[CHOOSE i \in 1..3 :
                  /\ StageOrder[i] \in ss
                  /\ \A j \in 1..(i - 1) : StageOrder[j] \notin ss]

\* the samples at which the smoother replaced the raw label while two or
\* more next states tied for the highest probability after the previous label
OverriddenOnTie ==
    {i \in 1..Len(log) :
        /\ cfg.variant = "adaptive"
        /\ cfg.use_transitions
        /\ log[i].fired
        /\ Cardinality(TiedForBest(cfg.params.transitions[log[i].prev])) >= 2}

\* C28: when the smoother overrides and several next states tie for the
\* highest probability after the previous label, the smoothed label is the
\* first of the tied states in the order awake, nrem, rem.
C28_TieGoesToFirst ==
    \A i \in OverriddenOnTie :
        log[i].smoothed =
            FirstInPriority(TiedForBest(cfg.params.transitions[log[i].prev]))

C28_Witness ==
    \E i \in OverriddenOnTie :
        /\ log[i].raw # log[i].smoothed
        /\ cfg.params.transitions[log[i].prev]["awake"]
               < cfg.params.transitions[log[i].prev]["nrem"]
(***************************************************************************)
(* Claims about EnhancedClassifierV2.classify (specification SpecEnh)      *)
(***************************************************************************)
\* the feature input is malformed: no features at all, or a NaN among them
Malformed(features) ==
    \/ DOMAIN features = {}
    \/ \E key \in DOMAIN features : features[key].nan

\* the label emitted before call i: the label of call i - 1, or the label
\* the classifier starts from
EmittedBefore(i) == IF i = 1 THEN "awake" ELSE log[i - 1].label

\* C29: a step whose feature input is malformed (NaN or missing features)
\* emits the previously emitted label and leaves the debounce counters and
\* the previous-label state unchanged.
C29_MalformedKeepsLabel ==
    \A i \in 1..Len(log) :
        (cfg.variant = "enhanced_v2" /\ Malformed(log[i].features)) =>
            /\ log[i].label = EmittedBefore(i)
            /\ log[i].after = log[i].before
(***************************************************************************)
(* Claims about get_awake_prior (specification SpecFn)                     *)
(***************************************************************************)
\* the table of the claim, in thousandths; the ramp 0.30 + 0.003 per minute
\* past 360 is capped at 0.65
AwakePriorTable(m) ==
    CASE m < 30 -> 350
      [] 30 <= m /\ m < 60 -> 10
      [] 60 <= m /\ m < 90 -> 330
      [] 90 <= m /\ m < 330 -> 100
      [] 330 <= m /\ m < 360 -> 300
      [] m >= 360 -> IF 300 + 3 * (m - 360) < 650 THEN 300 + 3 * (m - 360) ELSE 650

\* C30: get_awake_prior returns the value of the table for its interval, the
\* value lies in [0.01, 0.65], and from 330 minutes on a later time never
\* gets a smaller value.
C30_AwakePrior ==
    Returned("get_awake_prior") =>
        /\ fn_ret.value = AwakePriorTable(fn_call.minutes)
        /\ 10 <= fn_ret.value /\ fn_ret.value <= 650
        /\ \A later \in AwakePriorMinutes :
              (330 <= fn_call.minutes /\ fn_call.minutes <= later) =>
                  fn_ret.value <= get_awake_prior(later)

C30_Witness ==
    /\ Returned("get_awake_prior")
    /\ fn_call.minutes = 360
    /\ fn_ret.value = 300
(***************************************************************************)
(* Claims about the time-based REM propensity (specification SpecFn)       *)
(***************************************************************************)
\* the propensity of the claim, in ten-thousandths: base = min(0.35,
\* 0.10 + 0.08 * cycleIndex), doubled from position 0.65 of the cycle on and
\* multiplied by 0.3 before it
PropensityTable(m) ==
    LET cycleIndex == m \div 90
        ramp == 1000 + 800 * cycleIndex
        base == IF ramp < 3500 THEN ramp ELSE 3500
    IN  IF m < 70 THEN 0
        ELSE IF 100 * (m % 90) >= 65 * 90 THEN 2 * base
        ELSE (3 * base) \div 10

\* C31: the REM propensity is 0 before minute 70 and the table's value from
\* minute 70 on; it never exceeds 0.70, and at a fixed position of the cycle
\* it does not decrease when the cycle index grows.
C31_RemPropensity ==
    Returned("get_time_based_rem_probability") =>
        /\ fn_ret.value = PropensityTable(fn_call.minutes)
        /\ fn_call.minutes < 70 => fn_ret.value = 0
        /\ fn_ret.value <= 7000
        /\ \A later \in 0..MaxRemMinute :
              (later >= fn_call.minutes /\ later % 90 = fn_call.minutes % 90) =>
                  fn_ret.value <= time_rem_prob_of(later)

\* the doubled value in the last part of the fourth cycle, below the cap
C31_Witness ==
    /\ Returned("get_time_based_rem_probability")
    /\ fn_call.minutes = 329
    /\ fn_ret.value = 6800
(***************************************************************************)
(* Claims about the emitted label sequence under smoothing (Spec)          *)
(***************************************************************************)
\* the label emitted before sample i of the session: nrem before the first
EmittedBeforeSample(i) ==
    IF i = 1 \/ log[i - 1].session # log[i].session
    THEN "nrem"
    ELSE log[i - 1].predicted

\* the jump into sample i has a probability below the floor
VetoedJump(i) ==
    SmootherTable[EmittedBeforeSample(i)][log[i].predicted] < SmootherFloor

\* C32 as written: with smoothing, no two consecutive emitted labels of a
\* session, the first compared with nrem, have a transition probability
\* below the floor.
C32_Original ==
    Smoothed => \A i \in LogIdx : ~VetoedJump(i)

\* C32: with smoothing, two consecutive emitted labels of a session, the
\* first compared with nrem, have a transition probability of at least the
\* floor, unless the second is rem re-asserted by the hysteresis that runs
\* after the smoother (previous label rem, smoother's label nrem, minutes
\* >= 70, hysteresis score > 0.15).
C32_NoVetoedJump ==
    Smoothed =>
        \A i \in LogIdx :
            VetoedJump(i) => (Reasserted(log[i]) /\ log[i].predicted = "rem")

\* a jump the smoother replaced, and a rem kept against the table
C32_Witness ==
    /\ Smoothed
    /\ \E i, j \in LogIdx :
          /\ log[i].fired /\ log[i].raw # log[i].predicted /\ ~VetoedJump(i)
          /\ VetoedJump(j) /\ Reasserted(log[j])
(***************************************************************************)
(* Claims about entering rem in run_adaptive_classifier (Spec)             *)
(***************************************************************************)
\* sample i enters rem: the label before it is not rem, its own label is rem
EntersRem(i) == log[i].prev # "rem" /\ log[i].predicted = "rem"

\* C33: in run_adaptive_classifier, under every flag configuration, a sample
\* enters rem only with the consecutive-REM-signal counter at 2 or more
\* after the step, that sample and the one before it in the session both
\* qualifying (no awake gate, minutes >= 70, rem_score > 0.25).
C33_RemOnlyAfterDebounce ==
    IsAdaptive =>
        \A i \in LogIdx :
            EntersRem(i) =>
                /\ log[i].crs >= 2
                /\ Qualifies(log[i])
                /\ i > 1
                /\ log[i - 1].session = log[i].session
                /\ Qualifies(log[i - 1])
(***************************************************************************)
(* Claims about get_learned_awake_prior (specification SpecFn)             *)
(***************************************************************************)
\* x is the populated bin nearest to b, the lower one of two equally near
NearestPopulated(x, b, table) ==
    /\ x \in DOMAIN table
    /\ \A y \in DOMAIN table :
          LET dx == IF x >= b THEN x - b ELSE b - x
              dy == IF y >= b THEN y - b ELSE b - y
          IN  dx < dy \/ (dx = dy /\ x <= y)

\* C34: get_learned_awake_prior returns the stored prior of the sample's
\* 30-minute bin when that bin is populated, the prior of the nearest
\* populated bin (the lower one of two equally near) when it is not, and 0.1
\* when the table is empty.
C34_LearnedAwakePrior ==
    Returned("get_learned_awake_prior") =>
        LET table == fn_call.priors
            b == fn_call.minutes \div 30
        IN  /\ b \in DOMAIN table => fn_ret.value = table[b]
            /\ DOMAIN table = {} => fn_ret.value = 100
            /\ (b \notin DOMAIN table /\ DOMAIN table # {}) =>
                  \E x \in DOMAIN table :
                      NearestPopulated(x, b, table) /\ fn_ret.value = table[x]

\* bin 5 lies between the populated bins 2 and 8: the prior of bin 2
C34_Witness ==
    /\ Returned("get_learned_awake_prior")
    /\ fn_call.priors = SomePriors
    /\ fn_call.minutes = 150
    /\ fn_ret.value = SomePriors[2]
(***************************************************************************)
(* Claims about the awake debounce of two_stage_v2 (specification SpecTwo) *)
(***************************************************************************)
\* the position of log entry i among the entries of its session
PosInSession(i) == Cardinality({j \in 1..i : log[j].session = log[i].session})

\* the heart rates of the session of entry i up to that entry
BpmUpTo(i) ==
    LET own == SessionStream(sessions[log[i].session], hr_samples)
    IN  [j \in 1..PosInSession(i) |-> own[j].bpm]

\* the mean of the last ten successive differences of a buffer, in
\* thousandths, 0 for a buffer of one value
MeanDiffOfBuffer(hrs) ==
    LET n == Len(hrs) - 1
        first == IF n > 10 THEN n - 9 ELSE 1
        d(j) == IF hrs[j + 1] >= hrs[j] THEN hrs[j + 1] - hrs[j] ELSE hrs[j] - hrs[j + 1]
    IN  IF n < 1 THEN 0
        ELSE (1000 * SeqSum([j \in 1..(n - first + 1) |-> d(first + j - 1)]))
                \div (n - first + 1)

\* sample i had mean_diff > awake_thresh
SignalAt(i) == MeanDiffOfBuffer(BpmUpTo(i)) > cfg.awake_thresh

\* the awake counter after the sample classified last
AfterSample == cfg.variant = "two_stage_v2" /\ run_pc = "sample" /\ k > 1

\* C35: in two_stage_v2.run_classifier a sample is labelled awake exactly
\* when it and the awake_consec - 1 samples before it in its session all had
\* mean_diff > awake_thresh; a sample without the signal leaves the counter
\* at 0, and the counter is 0 when a session starts.
C35_AwakeDebounce ==
    /\ cfg.variant = "two_stage_v2" =>
          \A i \in LogIdx :
              log[i].predicted = "awake" <=>
                  /\ PosInSession(i) >= cfg.awake_consec
                  /\ \A j \in (i - cfg.awake_consec + 1)..i : SignalAt(j)
    /\ (AfterSample /\ ~SignalAt(Len(log))) => consecutive_awake_signals = 0
    /\ (cfg.variant = "two_stage_v2" /\ AtFirstSample) => consecutive_awake_signals = 0

\* the first night ends on a signalling sample, the second night starts
\* with an unlabelled one and its third sample is the first labelled awake
C35_Witness ==
    /\ cfg.variant = "two_stage_v2"
    /\ cfg.awake_consec = 2
    /\ run_pc = "done"
    /\ Len(log) = Len(TwoTimes)
    /\ SignalAt(4) /\ log[4].predicted = "awake"
    /\ ~SignalAt(5) /\ SignalAt(6) /\ SignalAt(7)
    /\ log[6].predicted # "awake" /\ log[7].predicted = "awake"
(***************************************************************************)
(* Claims about the time factor of the HMM emission (specification SpecFn) *)
(***************************************************************************)
\* C36: the time factor of emission_prob is 1.0 for awake and nrem at every
\* time; for rem it is below 1 before minute 70, it is at least the factor
\* of every earlier minute, and it is at most 1.5.
C36_TimeFactor ==
    Returned("emission_prob") =>
        LET tf == fn_ret.value.time_factor
            minutes == fn_call.o.minutes
        IN  IF fn_call.state # "rem" THEN tf = 1000
            ELSE /\ (minutes < SLEEP_LATENCY => tf < 1000)
                 /\ \A m \in 0..minutes : time_factor("rem", m) <= tf
                 /\ tf <= 1500

\* the rem factor has reached its cap in the fifth cycle
C36_Witness ==
    /\ Returned("emission_prob")
    /\ fn_call.state = "rem"
    /\ fn_call.o.minutes = 360
    /\ fn_ret.value.time_factor = 1500

(***************************************************************************)
(* Claims about the metrics of a confusion matrix (specification SpecFn)   *)
(***************************************************************************)
\* the metrics of a returned result, by name
MetricNames ==
    IF fn_call.fn = "calc_metrics"
    THEN {"accuracy", "rem_sens", "awake_sens", "awake_prec"}
    ELSE {"accuracy", "rem_sensitivity", "rem_specificity", "rem_precision", "rem_f1"}

MetricsReturned == Returned("calc_metrics") \/ Returned("rem_metrics")

\* the denominators the code tests before it divides, by metric
GuardedDenominator(name, c) ==
    CASE name = "accuracy" -> TotalOf(c)
      [] name \in {"rem_sens", "rem_sensitivity"} ->
            c["rem"]["rem"] + c["rem"]["awake"] + c["rem"]["nrem"]
      [] name = "awake_sens" ->
            c["awake"]["awake"] + c["awake"]["nrem"] + c["awake"]["rem"]
      [] name = "awake_prec" ->
            c["awake"]["awake"] + c["nrem"]["awake"] + c["rem"]["awake"]
      [] name = "rem_precision" ->
            c["rem"]["rem"] + c["awake"]["rem"] + c["nrem"]["rem"]
      [] name = "rem_specificity" ->
            c["awake"]["awake"] + c["awake"]["nrem"] + c["nrem"]["awake"]
            + c["nrem"]["nrem"] + c["awake"]["rem"] + c["nrem"]["rem"]
      [] name = "rem_f1" ->
            2 * c["rem"]["rem"] + c["awake"]["rem"] + c["nrem"]["rem"]
            + c["rem"]["awake"] + c["rem"]["nrem"]

\* C37: for every confusion matrix of non-negative counts, the all-zero one
\* included, no metric divides by zero, a metric whose denominator is zero
\* is 0, every metric lies in [0, 1], and the accuracy is the diagonal sum
\* over the total count.
C37_MetricsDefined ==
    MetricsReturned =>
        LET c == fn_call.confusion
            res == fn_ret.value
        IN  /\ \A name \in MetricNames :
                /\ res[name].raised = "none"
                /\ res[name].den > 0
                /\ 0 <= res[name].num /\ res[name].num <= res[name].den
                /\ GuardedDenominator(name, c) = 0 => res[name].num = 0
            /\ TotalOf(c) > 0 =>
                  res.accuracy.num * TotalOf(c)
                      = CorrectOf(c) * res.accuracy.den

\* the all-zero matrix has been given to the metrics of run_hmm_classifier
C37_Witness ==
    /\ Returned("rem_metrics")
    /\ fn_call.confusion = ZeroConfusion
    /\ fn_ret.value.rem_f1.num = 0
    /\ fn_ret.value.accuracy.num = 0

(***************************************************************************)
(* Claims about the RMSSD of the variants (specification SpecFn)           *)
(***************************************************************************)
\* a variant of compute_rmssd has returned
VariantReturned ==
    \/ Returned("debug_python_vs_ts.compute_rmssd")
    \/ Returned("simulate_classifier.compute_rmssd")

\* the value of the inline RMSSD of run_adaptive_classifier, which is also
\* the expression of compute_rmssd in debug_classifier.py
InlineRmssd(hrs) == FloatResult(rmssd_of(hrs), 0)

\* C38: for every heart-rate buffer, compute_rmssd of debug_python_vs_ts.py
\* and compute_rmssd of simulate_classifier.py return the value of the
\* inline RMSSD of run_adaptive_classifier, the sentinel 10.0 of a buffer of
\* fewer than 2 values included.
C38_VariantsAgree ==
    VariantReturned => fn_ret.value = InlineRmssd(fn_call.hrs)

\* the variants that take the root with math.sqrt return the inline value
SqrtVariantsAgree ==
    Returned("debug_python_vs_ts.compute_rmssd") =>
        fn_ret.value = InlineRmssd(fn_call.hrs)

=============================================================================
